---------------------------- MODULE Spec2Model ----------------------------
(***************************************************************************)
(* A model of the ADE risk engine of ade-shield-demo:                      *)
(*   src/backend/main.py   the FastAPI service (/calculate, /interaction)  *)
(*   src/frontend/app.py   the Streamlit client of that service            *)
(*   src/app.py            the stand-alone Streamlit application           *)
(*                                                                         *)
(* Numbers.  Ages, weights (kg) and scores are integers.  INR and baseline *)
(* creatinine are decimal numbers in the code; the model holds them in     *)
(* hundredths (an INR of 3.5 is 350, a creatinine of 1.5 is 150), so the   *)
(* comparisons inr > 3.5 and baseline_creat > 1.5 become > 350 and > 150.  *)
(***************************************************************************)
EXTENDS Integers, Sequences, FiniteSets, TLC

VARIABLES
    \* ---- a call of one scoring function (both copies of it) ----
    fn,             \* which scorer is called, "none" when no call is modelled
    args,           \* the arguments of the call, a record keyed by parameter name
    ret,            \* what the two copies returned, NotReturned before the call
    toggled,        \* the flag last switched from False to True, "none" at first
    before,         \* what the call returned before that flag was switched
    \* ---- the primary-threat selection on three given scores ----
    risks,          \* [bleeding, hypoglycemic, aki]
    threat,         \* what each selection of the program made of them
    \* ---- a browser session of src/app.py ----
    session_state,  \* st.session_state, a function of the keys that are set
    menu,           \* the sidebar radio
    calc,           \* the values of the Risk Calculator's widgets
    edits,          \* how many widget edits the user has made
    view,           \* what the last script run rendered
    \* ---- a call of generate_detailed_alert ----
    alert_call,     \* [risk_type, inputs], the arguments of the call
    alert_ret,      \* the message returned, NoAlert before the call
    \* ---- a lookup of a pair of drug names ----
    drugs,          \* [drug1, drug2], the two names as typed, strings of characters
    found,          \* what each copy of check_interaction made of them
    \* ---- the FastAPI service ----
    requests        \* the requests received, a sequence; each holds its own frame

scorerVars  == <<fn, args, ret, toggled, before>>
threatVars  == <<risks, threat>>
sessionVars == <<session_state, menu, calc, edits, view>>
alertVars   == <<alert_call, alert_ret>>
lookupVars  == <<drugs, found>>
restVars    == <<alert_call, alert_ret, drugs, found, requests>>
vars        == <<fn, args, ret, toggled, before, risks, threat,
                 session_state, menu, calc, edits, view,
                 alert_call, alert_ret, drugs, found, requests>>

-----------------------------------------------------------------------------
(* Python helpers *)

\* min(a, b) of two integers
Min(a, b) == IF a <= b THEN a ELSE b

\* max(a, b, c) of three integers
Max3(a, b, c) ==
    LET ab == IF b > a THEN b ELSE a
    IN  IF c > ab THEN c ELSE ab

-----------------------------------------------------------------------------
(* 1. The scoring functions.  The same four functions are defined twice,  *)
(* in src/backend/main.py and (prefixed app_ here) in src/app.py.  Each is *)
(* a run of `score += w if cond else 0` statements and a final min(., 100).*)

\* Mutant: the final min(score, 100) is forgotten.
calculate_bleeding_risk_unclamped(age, inr, anticoagulant, gi_bleed, high_bp, antiplatelet_use, gender, weight, smoking, alcohol_use, antibiotic_order, dietary_change, liver_disease, prior_stroke) ==
    (IF anticoagulant THEN 35 ELSE 0) + (IF inr > 350 THEN 40 ELSE 0)
  + (IF gi_bleed THEN 30 ELSE 0) + (IF antiplatelet_use THEN 15 ELSE 0)
  + (IF antibiotic_order THEN 25 ELSE 0) + (IF alcohol_use THEN 15 ELSE 0)
  + (IF liver_disease THEN 20 ELSE 0) + (IF dietary_change THEN 10 ELSE 0)
  + (IF age > 70 THEN 10 ELSE 0) + (IF high_bp THEN 10 ELSE 0)
  + (IF smoking THEN 10 ELSE 0) + (IF gender = "Female" THEN 5 ELSE 0)
  + (IF weight > 120 \/ weight < 50 THEN 15 ELSE 0) + (IF prior_stroke THEN 15 ELSE 0)

calculate_bleeding_risk(age, inr, anticoagulant, gi_bleed, high_bp, antiplatelet_use, gender, weight, smoking, alcohol_use, antibiotic_order, dietary_change, liver_disease, prior_stroke) ==
    LET score == (IF anticoagulant THEN 35 ELSE 0)
               + (IF inr > 350 THEN 40 ELSE 0)
               + (IF gi_bleed THEN 30 ELSE 0)
               + (IF antiplatelet_use THEN 15 ELSE 0)
               + (IF antibiotic_order THEN 25 ELSE 0)
               + (IF alcohol_use THEN 15 ELSE 0)
               + (IF liver_disease THEN 20 ELSE 0)
               + (IF dietary_change THEN 10 ELSE 0)
               + (IF age > 70 THEN 10 ELSE 0)
               + (IF high_bp THEN 10 ELSE 0)
               + (IF smoking THEN 10 ELSE 0)
               + (IF gender = "Female" THEN 5 ELSE 0)
               + (IF weight > 120 \/ weight < 50 THEN 15 ELSE 0)
               + (IF prior_stroke THEN 15 ELSE 0)
    IN  Min(score, 100)

\* Mutant: the low-weight test is weight <= 60 instead of weight < 60.
calculate_hypoglycemic_risk_le60(insulin_use, renal_status, high_hba1c, neuropathy_history, gender, weight, recent_dka) ==
    Min((IF insulin_use THEN 30 ELSE 0) + (IF renal_status THEN 45 ELSE 0)
      + (IF high_hba1c THEN 20 ELSE 0) + (IF neuropathy_history THEN 10 ELSE 0)
      + (IF weight <= 60 THEN 10 ELSE 0) + (IF recent_dka THEN 20 ELSE 0), 100)

calculate_hypoglycemic_risk(insulin_use, renal_status, high_hba1c, neuropathy_history, gender, weight, recent_dka) ==
    LET score == (IF insulin_use THEN 30 ELSE 0)
               + (IF renal_status THEN 45 ELSE 0)
               + (IF high_hba1c THEN 20 ELSE 0)
               + (IF neuropathy_history THEN 10 ELSE 0)
               + (IF weight < 60 THEN 10 ELSE 0)
               + (IF recent_dka THEN 20 ELSE 0)
    IN  Min(score, 100)

\* Mutant: the age test is age >= 75 instead of age > 75.
calculate_aki_risk_ge75(age, diuretic_use, acei_arb_use, high_bp, active_chemo, gender, weight, race, baseline_creat, contrast_exposure) ==
    Min((IF diuretic_use THEN 30 ELSE 0) + (IF acei_arb_use THEN 40 ELSE 0)
      + (IF contrast_exposure THEN 25 ELSE 0) + (IF age >= 75 THEN 20 ELSE 0)
      + (IF high_bp THEN 10 ELSE 0) + (IF active_chemo THEN 20 ELSE 0)
      + (IF race = "Non-Hispanic Black" THEN 15 ELSE 0)
      + (IF baseline_creat > 150 THEN 30 ELSE 0), 100)

calculate_aki_risk(age, diuretic_use, acei_arb_use, high_bp, active_chemo, gender, weight, race, baseline_creat, contrast_exposure) ==
    LET score == (IF diuretic_use THEN 30 ELSE 0)
               + (IF acei_arb_use THEN 40 ELSE 0)
               + (IF contrast_exposure THEN 25 ELSE 0)
               + (IF age > 75 THEN 20 ELSE 0)
               + (IF high_bp THEN 10 ELSE 0)
               + (IF active_chemo THEN 20 ELSE 0)
               + (IF race = "Non-Hispanic Black" THEN 15 ELSE 0)
               + (IF baseline_creat > 150 THEN 30 ELSE 0)
    IN  Min(score, 100)

\* Mutant: the weights of prior stroke and active chemotherapy are swapped.
calculate_comorbidity_load_swapped(prior_stroke, active_chemo, recent_dka, liver_disease, smoking, high_bp) ==
    Min((IF prior_stroke THEN 30 ELSE 0) + (IF active_chemo THEN 25 ELSE 0)
      + (IF recent_dka THEN 20 ELSE 0) + (IF liver_disease THEN 15 ELSE 0)
      + (IF smoking THEN 10 ELSE 0) + (IF high_bp THEN 10 ELSE 0), 100)

calculate_comorbidity_load(prior_stroke, active_chemo, recent_dka, liver_disease, smoking, high_bp) ==
    LET load == (IF prior_stroke THEN 25 ELSE 0)
              + (IF active_chemo THEN 30 ELSE 0)
              + (IF recent_dka THEN 20 ELSE 0)
              + (IF liver_disease THEN 15 ELSE 0)
              + (IF smoking THEN 10 ELSE 0)
              + (IF high_bp THEN 10 ELSE 0)
    IN  Min(load, 100)

\* Mutant: the INR test is inr >= 3.5 instead of inr > 3.5.
app_calculate_bleeding_risk_ge35(age, inr, anticoagulant, gi_bleed, high_bp, antiplatelet_use, gender, weight, smoking, alcohol_use, antibiotic_order, dietary_change, liver_disease, prior_stroke) ==
    Min((IF anticoagulant THEN 35 ELSE 0) + (IF inr >= 350 THEN 40 ELSE 0)
      + (IF gi_bleed THEN 30 ELSE 0) + (IF antiplatelet_use THEN 15 ELSE 0)
      + (IF antibiotic_order THEN 25 ELSE 0) + (IF alcohol_use THEN 15 ELSE 0)
      + (IF liver_disease THEN 20 ELSE 0) + (IF dietary_change THEN 10 ELSE 0)
      + (IF age > 70 THEN 10 ELSE 0) + (IF high_bp THEN 10 ELSE 0)
      + (IF smoking THEN 10 ELSE 0) + (IF gender = "Female" THEN 5 ELSE 0)
      + (IF weight > 120 \/ weight < 50 THEN 15 ELSE 0)
      + (IF prior_stroke THEN 15 ELSE 0), 100)

app_calculate_bleeding_risk(age, inr, anticoagulant, gi_bleed, high_bp, antiplatelet_use, gender, weight, smoking, alcohol_use, antibiotic_order, dietary_change, liver_disease, prior_stroke) ==
    LET score == (IF anticoagulant THEN 35 ELSE 0)
               + (IF inr > 350 THEN 40 ELSE 0)
               + (IF gi_bleed THEN 30 ELSE 0)
               + (IF antiplatelet_use THEN 15 ELSE 0)
               + (IF antibiotic_order THEN 25 ELSE 0)
               + (IF alcohol_use THEN 15 ELSE 0)
               + (IF liver_disease THEN 20 ELSE 0)
               + (IF dietary_change THEN 10 ELSE 0)
               + (IF age > 70 THEN 10 ELSE 0)
               + (IF high_bp THEN 10 ELSE 0)
               + (IF smoking THEN 10 ELSE 0)
               + (IF gender = "Female" THEN 5 ELSE 0)
               + (IF weight > 120 \/ weight < 50 THEN 15 ELSE 0)
               + (IF prior_stroke THEN 15 ELSE 0)
    IN  Min(score, 100)

app_calculate_hypoglycemic_risk_renal40(insulin_use, renal_status, high_hba1c, neuropathy_history, gender, weight, recent_dka) ==
    LET score == (IF insulin_use THEN 30 ELSE 0)
               + (IF renal_status THEN 40 ELSE 0)
               + (IF high_hba1c THEN 20 ELSE 0)
               + (IF neuropathy_history THEN 10 ELSE 0)
               + (IF weight < 60 THEN 10 ELSE 0)
               + (IF recent_dka THEN 20 ELSE 0)
    IN  Min(score, 100)

app_calculate_hypoglycemic_risk(insulin_use, renal_status, high_hba1c, neuropathy_history, gender, weight, recent_dka) ==
    LET score == (IF insulin_use THEN 30 ELSE 0)
               + (IF renal_status THEN 45 ELSE 0)
               + (IF high_hba1c THEN 20 ELSE 0)
               + (IF neuropathy_history THEN 10 ELSE 0)
               + (IF weight < 60 THEN 10 ELSE 0)
               + (IF recent_dka THEN 20 ELSE 0)
    IN  Min(score, 100)

app_calculate_aki_risk(age, diuretic_use, acei_arb_use, high_bp, active_chemo, gender, weight, race, baseline_creat, contrast_exposure) ==
    LET score == (IF diuretic_use THEN 30 ELSE 0)
               + (IF acei_arb_use THEN 40 ELSE 0)
               + (IF contrast_exposure THEN 25 ELSE 0)
               + (IF age > 75 THEN 20 ELSE 0)
               + (IF high_bp THEN 10 ELSE 0)
               + (IF active_chemo THEN 20 ELSE 0)
               + (IF race = "Non-Hispanic Black" THEN 15 ELSE 0)
               + (IF baseline_creat > 150 THEN 30 ELSE 0)
    IN  Min(score, 100)

\* Mutant: an interaction term, smoking and uncontrolled BP together count once.
app_calculate_comorbidity_load_once(prior_stroke, active_chemo, recent_dka, liver_disease, smoking, high_bp) ==
    Min((IF prior_stroke THEN 25 ELSE 0) + (IF active_chemo THEN 30 ELSE 0)
      + (IF recent_dka THEN 20 ELSE 0) + (IF liver_disease THEN 15 ELSE 0)
      + (IF smoking \/ high_bp THEN 10 ELSE 0), 100)

app_calculate_comorbidity_load(prior_stroke, active_chemo, recent_dka, liver_disease, smoking, high_bp) ==
    LET load == (IF prior_stroke THEN 25 ELSE 0)
              + (IF active_chemo THEN 30 ELSE 0)
              + (IF recent_dka THEN 20 ELSE 0)
              + (IF liver_disease THEN 15 ELSE 0)
              + (IF smoking THEN 10 ELSE 0)
              + (IF high_bp THEN 10 ELSE 0)
    IN  Min(load, 100)

-----------------------------------------------------------------------------
(* 2. A call of one scorer.  The arguments are drawn from sets that hold   *)
(* both sides of every threshold the scorer tests, and the values of the   *)
(* worked examples.                                                        *)

Genders == {"Male", "Female"}
Races   == {"Non-Hispanic Black", "Other"}

BleedingAges    == {70, 71, 78}
BleedingINRs    == {350, 351, 410}
BleedingWeights == {49, 50, 55, 120, 121}
HypoWeights     == {55, 59, 60}
AkiAges         == {60, 75, 76}
AkiWeights      == {55, 75}
AkiCreats       == {90, 150, 151}

BleedingFlags    == {"anticoagulant", "gi_bleed", "high_bp", "antiplatelet_use", "smoking",
                     "alcohol_use", "antibiotic_order", "dietary_change", "liver_disease",
                     "prior_stroke"}
HypoglycemicFlags == {"insulin_use", "renal_status", "high_hba1c", "neuropathy_history",
                      "recent_dka"}
AkiFlags         == {"diuretic_use", "acei_arb_use", "high_bp", "active_chemo",
                     "contrast_exposure"}
ComorbidityFlags == {"prior_stroke", "active_chemo", "recent_dka", "liver_disease",
                     "smoking", "high_bp"}

BleedingArgs ==
    [age : BleedingAges, inr : BleedingINRs, gender : Genders, weight : BleedingWeights,
     anticoagulant : BOOLEAN, gi_bleed : BOOLEAN, high_bp : BOOLEAN,
     antiplatelet_use : BOOLEAN, smoking : BOOLEAN, alcohol_use : BOOLEAN,
     antibiotic_order : BOOLEAN, dietary_change : BOOLEAN, liver_disease : BOOLEAN,
     prior_stroke : BOOLEAN]

HypoglycemicArgs ==
    [insulin_use : BOOLEAN, renal_status : BOOLEAN, high_hba1c : BOOLEAN,
     neuropathy_history : BOOLEAN, gender : Genders, weight : HypoWeights,
     recent_dka : BOOLEAN]

AkiArgs ==
    [age : AkiAges, diuretic_use : BOOLEAN, acei_arb_use : BOOLEAN, high_bp : BOOLEAN,
     active_chemo : BOOLEAN, gender : Genders, weight : AkiWeights, race : Races,
     baseline_creat : AkiCreats, contrast_exposure : BOOLEAN]

ComorbidityArgs ==
    [prior_stroke : BOOLEAN, active_chemo : BOOLEAN, recent_dka : BOOLEAN,
     liver_disease : BOOLEAN, smoking : BOOLEAN, high_bp : BOOLEAN]

NoArgs      == [none |-> TRUE]
NotReturned == [api |-> -1, app |-> -1]

FlagsOf(f) ==
    CASE f = "bleeding"     -> BleedingFlags
      [] f = "hypoglycemic" -> HypoglycemicFlags
      [] f = "aki"          -> AkiFlags
      [] f = "comorbidity"  -> ComorbidityFlags
      [] OTHER              -> {}

\* The positional calls, as the callers of the scorers write them.
BleedingCall(a) ==
    [api |-> calculate_bleeding_risk(a.age, a.inr, a.anticoagulant, a.gi_bleed, a.high_bp,
                 a.antiplatelet_use, a.gender, a.weight, a.smoking, a.alcohol_use,
                 a.antibiotic_order, a.dietary_change, a.liver_disease, a.prior_stroke),
     app |-> app_calculate_bleeding_risk(a.age, a.inr, a.anticoagulant, a.gi_bleed, a.high_bp,
                 a.antiplatelet_use, a.gender, a.weight, a.smoking, a.alcohol_use,
                 a.antibiotic_order, a.dietary_change, a.liver_disease, a.prior_stroke)]

HypoglycemicCall(a) ==
    [api |-> calculate_hypoglycemic_risk(a.insulin_use, a.renal_status, a.high_hba1c,
                 a.neuropathy_history, a.gender, a.weight, a.recent_dka),
     app |-> app_calculate_hypoglycemic_risk(a.insulin_use, a.renal_status, a.high_hba1c,
                 a.neuropathy_history, a.gender, a.weight, a.recent_dka)]

AkiCall(a) ==
    [api |-> calculate_aki_risk(a.age, a.diuretic_use, a.acei_arb_use, a.high_bp,
                 a.active_chemo, a.gender, a.weight, a.race, a.baseline_creat,
                 a.contrast_exposure),
     app |-> app_calculate_aki_risk(a.age, a.diuretic_use, a.acei_arb_use, a.high_bp,
                 a.active_chemo, a.gender, a.weight, a.race, a.baseline_creat,
                 a.contrast_exposure)]

ComorbidityCall(a) ==
    [api |-> calculate_comorbidity_load(a.prior_stroke, a.active_chemo, a.recent_dka,
                 a.liver_disease, a.smoking, a.high_bp),
     app |-> app_calculate_comorbidity_load(a.prior_stroke, a.active_chemo, a.recent_dka,
                 a.liver_disease, a.smoking, a.high_bp)]

ScorerCall(f, a) ==
    CASE f = "bleeding"     -> BleedingCall(a)
      [] f = "hypoglycemic" -> HypoglycemicCall(a)
      [] f = "aki"          -> AkiCall(a)
      [] f = "comorbidity"  -> ComorbidityCall(a)

-----------------------------------------------------------------------------
(* Idle values of the parts a specification does not use *)

NoRisks   == [bleeding |-> 0, hypoglycemic |-> 0, aki |-> 0]
NoThreat  == [at |-> "none"]
NoSession == [entered_app |-> FALSE]
NoCalc    == [none |-> TRUE]
NoView    == [page |-> "none"]

ScorerIdle ==
    /\ fn = "none" /\ args = NoArgs /\ ret = NotReturned
    /\ toggled = "none" /\ before = NotReturned

ThreatIdle == risks = NoRisks /\ threat = NoThreat

SessionIdle ==
    /\ session_state = NoSession /\ menu = "none"
    /\ calc = NoCalc /\ edits = 0 /\ view = NoView

NoAlertCall == [risk_type |-> "none"]
NoDrugs     == [none |-> TRUE]
NoFound     == [at |-> "none"]

AlertIdle  == alert_call = NoAlertCall /\ alert_ret = [severity |-> "none"]
LookupIdle == drugs = NoDrugs /\ found = NoFound
ServerIdle == requests = <<>>
RestIdle   == AlertIdle /\ LookupIdle /\ ServerIdle

-----------------------------------------------------------------------------
(* SpecScorers: every call of every scorer on the drawn arguments, and a   *)
(* second call with one flag switched from False to True.                  *)

InitScorers ==
    /\ \/ fn = "bleeding"     /\ args \in BleedingArgs
       \/ fn = "hypoglycemic" /\ args \in HypoglycemicArgs
       \/ fn = "aki"          /\ args \in AkiArgs
       \/ fn = "comorbidity"  /\ args \in ComorbidityArgs
    /\ ret = NotReturned
    /\ toggled = "none"
    /\ before = NotReturned
    /\ ThreatIdle
    /\ SessionIdle
    /\ RestIdle

CallBleeding ==
    /\ fn = "bleeding" /\ ret = NotReturned
    /\ ret' = BleedingCall(args)
    /\ UNCHANGED <<fn, args, toggled, before, threatVars, sessionVars, restVars>>

CallHypoglycemic ==
    /\ fn = "hypoglycemic" /\ ret = NotReturned
    /\ ret' = HypoglycemicCall(args)
    /\ UNCHANGED <<fn, args, toggled, before, threatVars, sessionVars, restVars>>

CallAki ==
    /\ fn = "aki" /\ ret = NotReturned
    /\ ret' = AkiCall(args)
    /\ UNCHANGED <<fn, args, toggled, before, threatVars, sessionVars, restVars>>

CallComorbidity ==
    /\ fn = "comorbidity" /\ ret = NotReturned
    /\ ret' = ComorbidityCall(args)
    /\ UNCHANGED <<fn, args, toggled, before, threatVars, sessionVars, restVars>>

\* The caller switches one flag on and calls the scorer again.
ToggleFlag ==
    /\ ret # NotReturned
    /\ \E f \in FlagsOf(fn) :
          /\ args[f] = FALSE
          /\ args' = [args EXCEPT ![f] = TRUE]
          /\ toggled' = f
    /\ before' = ret
    /\ ret' = ScorerCall(fn, args')
    /\ UNCHANGED <<fn, threatVars, sessionVars, restVars>>

NextScorers ==
    \/ CallBleeding
    \/ CallHypoglycemic
    \/ CallAki
    \/ CallComorbidity
    \/ ToggleFlag

SpecScorers == InitScorers /\ [][NextScorers]_vars

-----------------------------------------------------------------------------
(* 3. The primary-threat selections.  The program selects the primary      *)
(* threat in four places: the /calculate endpoint, the frontend that shows *)
(* its response, the Risk Calculator page and the Live Dashboard page.     *)

\* Python's max(d, key=d.get) over a dict: the keys are visited in insertion
\* order and the best so far is replaced only by a strictly greater value.
RECURSIVE PyMaxKey(_, _, _)
PyMaxKey(keys, d, best) ==
    IF keys = <<>> THEN best
    ELSE PyMaxKey(Tail(keys), d, IF d[Head(keys)] > d[best] THEN Head(keys) ELSE best)

\* Mutant: ties go to the last key instead of the first.
max_type_last_wins(b_risk, h_risk, a_risk) ==
    IF a_risk >= b_risk /\ a_risk >= h_risk THEN "AKI"
    ELSE IF h_risk >= b_risk THEN "Hypoglycemia" ELSE "Bleeding"

\* calculate_risks: risks = {...}; max_type = max(risks, key=risks.get)
max_type(b_risk, h_risk, a_risk) ==
    LET d == [Bleeding |-> b_risk, Hypoglycemia |-> h_risk, AKI |-> a_risk]
    IN  PyMaxKey(<<"Hypoglycemia", "AKI">>, d, "Bleeding")

\* calculate_risks: the response built from the four scores
calculate_risks_response(b_risk, h_risk, a_risk, fragility) ==
    LET d == [Bleeding |-> b_risk, Hypoglycemia |-> h_risk, AKI |-> a_risk]
        mt == max_type(b_risk, h_risk, a_risk)
    IN  [bleeding_risk |-> b_risk, hypoglycemic_risk |-> h_risk, aki_risk |-> a_risk,
         fragility_index |-> fragility, primary_alert |-> mt, primary_score |-> d[mt]]

\* frontend: if data['primary_score'] >= 70: st.error("Primary Threat: ...")
frontend_primary_threat(data) ==
    IF data.primary_score >= 70
    THEN [shown |-> TRUE, alert |-> data.primary_alert, score |-> data.primary_score]
    ELSE [shown |-> FALSE, alert |-> "none", score |-> 0]

\* Risk Calculator: the if/elif chain that names the category of max_risk
risk_type_of(bleeding_risk, hypoglycemic_risk, aki_risk, max_risk) ==
    IF bleeding_risk = max_risk THEN "Bleeding"
    ELSE IF hypoglycemic_risk = max_risk THEN "Hypoglycemic"
    ELSE IF aki_risk = max_risk THEN "AKI"
    ELSE "General"

\* Risk Calculator: max_risk, and the branch on max_risk >= 70
calculator_threat_ge60(bleeding_risk, hypoglycemic_risk, aki_risk) ==
    LET max_risk == Max3(bleeding_risk, hypoglycemic_risk, aki_risk)
    IN  IF max_risk >= 60
        THEN [max_risk |-> max_risk, alerted |-> TRUE, manageable |-> FALSE,
              risk_type |-> risk_type_of(bleeding_risk, hypoglycemic_risk, aki_risk, max_risk)]
        ELSE [max_risk |-> max_risk, alerted |-> FALSE, manageable |-> TRUE,
              risk_type |-> "none"]

calculator_threat(bleeding_risk, hypoglycemic_risk, aki_risk) ==
    LET max_risk == Max3(bleeding_risk, hypoglycemic_risk, aki_risk)
    IN  IF max_risk >= 70
        THEN [max_risk |-> max_risk, alerted |-> TRUE, manageable |-> FALSE,
              risk_type |-> risk_type_of(bleeding_risk, hypoglycemic_risk, aki_risk, max_risk)]
        ELSE [max_risk |-> max_risk, alerted |-> FALSE, manageable |-> TRUE,
              risk_type |-> "none"]

\* Mutant: the CRITICAL threshold is tested with > instead of >=.
alert_label_of_gt90(max_risk) ==
    IF max_risk > 90 THEN "CRITICAL" ELSE (IF max_risk >= 70 THEN "HIGH" ELSE "LOW")

\* Live Dashboard: alert_label
alert_label_of(max_risk) ==
    IF max_risk >= 90 THEN "CRITICAL" ELSE (IF max_risk >= 70 THEN "HIGH" ELSE "LOW")

\* Live Dashboard, patient loaded: max_risk, primary_threat, alert_color, alert_label
dashboard_threat(br, hr, ar) ==
    LET max_risk == Max3(br, hr, ar)
    IN  [max_risk |-> max_risk,
         primary_threat |-> IF br = max_risk THEN "Bleeding Risk"
                            ELSE IF hr = max_risk THEN "Hypoglycemic Risk"
                            ELSE "AKI Risk",
         alert_color |-> IF max_risk >= 70 THEN "red" ELSE "green",
         alert_label |-> alert_label_of(max_risk)]

\* The scores a selection is tried on: every value the scorers can return (all
\* weights are multiples of 5) and both neighbours of the two thresholds.
Scores == {s \in 0..100 : s % 5 = 0} \cup {69, 71, 89, 91}

InitThreat ==
    /\ risks \in [bleeding : Scores, hypoglycemic : Scores, aki : Scores]
    /\ threat = NoThreat
    /\ ScorerIdle
    /\ SessionIdle
    /\ RestIdle

\* POST /calculate answers with the primary alert of the three scores.
EndpointSelects ==
    /\ threat = NoThreat
    /\ threat' = [at |-> "endpoint",
                  data |-> calculate_risks_response(risks.bleeding, risks.hypoglycemic,
                                                    risks.aki, 0)]
    /\ UNCHANGED <<risks, scorerVars, sessionVars, restVars>>

\* The frontend renders the response it received.
FrontendShows ==
    /\ threat.at = "endpoint"
    /\ threat' = [at |-> "frontend", data |-> threat.data,
                  primary |-> frontend_primary_threat(threat.data)]
    /\ UNCHANGED <<risks, scorerVars, sessionVars, restVars>>

\* The Risk Calculator page branches on the three scores.
CalculatorSelects ==
    /\ threat = NoThreat
    /\ threat' = [at |-> "calculator",
                  sel |-> calculator_threat(risks.bleeding, risks.hypoglycemic, risks.aki)]
    /\ UNCHANGED <<risks, scorerVars, sessionVars, restVars>>

\* The Live Dashboard page classifies the three stored scores.
DashboardSelects ==
    /\ threat = NoThreat
    /\ threat' = [at |-> "dashboard",
                  sel |-> dashboard_threat(risks.bleeding, risks.hypoglycemic, risks.aki)]
    /\ UNCHANGED <<risks, scorerVars, sessionVars, restVars>>

NextThreat ==
    \/ EndpointSelects
    \/ FrontendShows
    \/ CalculatorSelects
    \/ DashboardSelects

SpecThreat == InitThreat /\ [][NextThreat]_vars

-----------------------------------------------------------------------------
(* 4. The rationale generator of src/app.py.  A message is held as its     *)
(* parts: the severity word and the threat named by base_message, the list *)
(* of factors appended, and the returned text.  The leading emoji of the   *)
(* text is left out, and the two f-string factors keep their placeholder   *)
(* in place of the formatted number.                                       *)

\* ", ".join(factors)
RECURSIVE Join(_)
Join(factors) ==
    IF factors = <<>> THEN ""
    ELSE IF Len(factors) = 1 THEN factors[1]
    ELSE factors[1] \o ", " \o Join(Tail(factors))

\* base_message = "CRITICAL ALERT: Highest threat is **<threat>**. Primary factors:"
base_message_text(severity, name) ==
    severity \o " ALERT: Highest threat is **" \o name \o "**. Primary factors:"

\* `if cond: factors.append(text)`
AppendIf(cond, text) == IF cond THEN <<text>> ELSE <<>>

\* The tail of generate_detailed_alert: `if factors: ... else: ...`
alert_message(severity, name, factors) ==
    [severity |-> severity, threat |-> name, factors |-> factors,
     text |-> IF factors # <<>>
              THEN base_message_text(severity, name) \o " " \o Join(factors) \o "."
              ELSE base_message_text(severity, name)
                     \o " High risk due to combination of demographic factors."]

generate_detailed_alert(risk_type, inputs) ==
    IF risk_type = "Bleeding" THEN
        alert_message("CRITICAL", "Bleeding Risk",
               AppendIf(inputs.inr > 350, "High INR ({inputs['inr']})")
            \o AppendIf(inputs.antibiotic_order, "New Antibiotic Order (Metabolic Interference)")
            \o AppendIf(inputs.on_antiplatelet, "Dual Antiplatelet/Anticoagulant Therapy")
            \o AppendIf(inputs.alcohol_use, "Heavy Alcohol Use")
            \o AppendIf(inputs.hist_gi_bleed, "History of GI Bleed")
            \o AppendIf(inputs.prior_stroke, "History of Stroke/TIA (Complex Management)"))
    ELSE IF risk_type = "Hypoglycemic" THEN
        alert_message("CRITICAL", "Hypoglycemic Risk",
               AppendIf(inputs.impaired_renal, "Impaired Renal Status (Reduced Drug Clearance)")
            \o AppendIf(inputs.high_hba1c, "Poor DM Control (HbA1c > 9.0%)")
            \o AppendIf(inputs.recent_dka, "Recent DKA/HHS Admission (Metabolic Volatility)")
            \o AppendIf(inputs.weight < 60, "Low Body Weight ({inputs['weight']} kg)"))
    ELSE IF risk_type = "AKI" THEN
        alert_message("CRITICAL", "AKI Risk (Renal)",
               AppendIf(inputs.baseline_creat > 150, "Baseline CKD (Creatinine > 1.5)")
            \o AppendIf(inputs.active_chemo, "Active Chemotherapy (Nephrotoxic Agent)")
            \o AppendIf(inputs.contrast_exposure, "Recent Contrast Dye Exposure")
            \o AppendIf(inputs.on_acei_arb /\ inputs.on_diuretic, "Combined ACEi/Diuretic Therapy"))
    ELSE
        [severity |-> "HIGH RISK", threat |-> "none", factors |-> <<>>,
         text |-> "HIGH RISK ALERT: Check specific patient risks."]

NoAlert == [severity |-> "none", threat |-> "none", factors |-> <<>>, text |-> ""]

-----------------------------------------------------------------------------
(* 5. A browser session of src/app.py.  Streamlit runs the whole script    *)
(* again after every interaction; a run reads st.session_state and the     *)
(* widgets' values, may write st.session_state, and renders one page.  A   *)
(* widget that a run does not render loses its value: the calculator's     *)
(* widgets are back at their defaults when the page is opened again.       *)

MaxEdits == 3

Pages == {"Live Dashboard", "Risk Calculator", "CSV Upload", "Medication Checker", "Chatbot"}

CalcFlags == {"prior_stroke", "hist_gi_bleed", "on_anticoag", "on_antiplatelet",
              "uncontrolled_bp", "smoking_calc", "alcohol_use", "antibiotic_order",
              "dietary_change", "liver_disease", "on_insulin", "high_hba1c",
              "neuropathy_history", "impaired_renal", "recent_dka", "on_acei_arb",
              "on_diuretic", "active_chemo", "contrast_exposure"}

\* The values the user may give each widget (the defaults among them).
CalcChoices ==
    [age_calc |-> {60, 78}, gender_calc |-> Genders, race_calc |-> Races,
     weight_calc |-> {45, 55, 75}, inr_calc |-> {100, 410}, baseline_creat |-> {90, 200}]
    @@ [f \in CalcFlags |-> BOOLEAN]

\* The widgets' default values (height_calc, which nothing reads, is left out).
CalcDefaults ==
    [age_calc |-> 78, gender_calc |-> "Female", race_calc |-> "Other",
     weight_calc |-> 55, inr_calc |-> 410, baseline_creat |-> 90,
     prior_stroke |-> TRUE, hist_gi_bleed |-> TRUE, on_anticoag |-> TRUE,
     on_antiplatelet |-> TRUE, uncontrolled_bp |-> TRUE, smoking_calc |-> TRUE,
     alcohol_use |-> TRUE, antibiotic_order |-> TRUE, dietary_change |-> FALSE,
     liver_disease |-> TRUE, on_insulin |-> TRUE, high_hba1c |-> TRUE,
     neuropathy_history |-> FALSE, impaired_renal |-> TRUE, recent_dka |-> TRUE,
     on_acei_arb |-> FALSE, on_diuretic |-> FALSE, active_chemo |-> TRUE,
     contrast_exposure |-> FALSE]

\* `if 'patient_loaded' not in st.session_state:` the keys set on the first run
\* of the main application
SessionDefaults ==
    [patient_loaded |-> FALSE, bleeding_risk |-> 0, hypoglycemic_risk |-> 0,
     aki_risk |-> 0, fragility_index |-> 0,
     patient_info |-> [age |-> 70, gender |-> "Male", weight |-> 75]]

CoverPage == [page |-> "Cover"]

\* The dict handed to generate_detailed_alert
alert_inputs(c) ==
    [inr |-> c.inr_calc, antibiotic_order |-> c.antibiotic_order,
     on_antiplatelet |-> c.on_antiplatelet, alcohol_use |-> c.alcohol_use,
     hist_gi_bleed |-> c.hist_gi_bleed, prior_stroke |-> c.prior_stroke,
     impaired_renal |-> c.impaired_renal, high_hba1c |-> c.high_hba1c,
     recent_dka |-> c.recent_dka, weight |-> c.weight_calc,
     baseline_creat |-> c.baseline_creat, active_chemo |-> c.active_chemo,
     on_acei_arb |-> c.on_acei_arb, on_diuretic |-> c.on_diuretic,
     contrast_exposure |-> c.contrast_exposure]

\* PAGE 1, Risk Calculator: the four scores, the four metrics and the branch on
\* max_risk >= 70.  `clicked` says whether this run follows a press of "Load
\* Patient to Dashboard".
CalculatorPage(c, clicked) ==
    LET bleeding_risk == app_calculate_bleeding_risk(c.age_calc, c.inr_calc, c.on_anticoag,
                             c.hist_gi_bleed, c.uncontrolled_bp, c.on_antiplatelet,
                             c.gender_calc, c.weight_calc, c.smoking_calc, c.alcohol_use,
                             c.antibiotic_order, c.dietary_change, c.liver_disease,
                             c.prior_stroke)
        hypoglycemic_risk == app_calculate_hypoglycemic_risk(c.on_insulin, c.impaired_renal,
                             c.high_hba1c, c.neuropathy_history, c.gender_calc,
                             c.weight_calc, c.recent_dka)
        aki_risk == app_calculate_aki_risk(c.age_calc, c.on_diuretic, c.on_acei_arb,
                             c.uncontrolled_bp, c.active_chemo, c.gender_calc, c.weight_calc,
                             c.race_calc, c.baseline_creat, c.contrast_exposure)
        comorbidity_load == app_calculate_comorbidity_load(c.prior_stroke, c.active_chemo,
                             c.recent_dka, c.liver_disease, c.smoking_calc, c.uncontrolled_bp)
        sel == calculator_threat(bleeding_risk, hypoglycemic_risk, aki_risk)
    IN  [page |-> "Risk Calculator",
         bleeding_risk |-> bleeding_risk, hypoglycemic_risk |-> hypoglycemic_risk,
         aki_risk |-> aki_risk, comorbidity_load |-> comorbidity_load,
         deltas |-> [bleeding |-> "CRITICAL ALERT", hypoglycemic |-> "CRITICAL ALERT",
                     aki |-> "HIGH ALERT", fragility |-> "CRITICAL ALERT"],
         max_risk |-> sel.max_risk,
         risk_type |-> sel.risk_type,
         alert_message |-> IF sel.alerted
                           THEN generate_detailed_alert(sel.risk_type, alert_inputs(c))
                           ELSE NoAlert,
         load_button |-> sel.alerted,
         manageable |-> sel.manageable,
         toast |-> sel.alerted /\ clicked]

\* The body of `if st.button("Load Patient to Dashboard"):`
LoadPatient(ss, page, c) ==
    [ss EXCEPT !.patient_loaded = TRUE,
               !.bleeding_risk = page.bleeding_risk,
               !.hypoglycemic_risk = page.hypoglycemic_risk,
               !.aki_risk = page.aki_risk,
               !.fragility_index = page.comorbidity_load,
               !.patient_info = [age |-> c.age_calc, gender |-> c.gender_calc,
                                 weight |-> c.weight_calc]]

\* PAGE 0, Live Dashboard: the loaded patient's stored scores, or the built-in
\* demonstration patient, and the four metrics with their labels.
DashboardPage(ss) ==
    LET loaded == ss.patient_loaded
        br  == IF loaded THEN ss.bleeding_risk ELSE 60
        hr  == IF loaded THEN ss.hypoglycemic_risk ELSE 92
        ar  == IF loaded THEN ss.aki_risk ELSE 80
        cfr == IF loaded THEN ss.fragility_index ELSE 75
        sel == dashboard_threat(br, hr, ar)
        alert_label == IF loaded THEN sel.alert_label ELSE "CRITICAL"
    IN  [page |-> "Live Dashboard",
         br |-> br, hr |-> hr, ar |-> ar, cfr |-> cfr,
         patient |-> IF loaded THEN ss.patient_info
                     ELSE [age |-> 65, gender |-> "Female", weight |-> 55],
         max_risk |-> IF loaded THEN sel.max_risk ELSE hr,
         primary_threat |-> IF loaded THEN sel.primary_threat ELSE "Hypoglycemic Risk",
         alert_color |-> IF loaded THEN sel.alert_color ELSE "unset",
         alert_label |-> alert_label,
         bleeding_label |-> IF br < 70 THEN "MED" ELSE "CRITICAL",
         hypoglycemic_label |-> alert_label,
         aki_label |-> IF ar >= 70 THEN "HIGH" ELSE "LOW",
         fragility_label |-> IF cfr >= 70 THEN "HIGH" ELSE "LOW"]

\* One run of the script: the session state it leaves and the page it renders.
RunScript(ss, m, c, clicked) ==
    IF ~ss.entered_app THEN [session_state |-> ss, view |-> CoverPage]
    ELSE LET ss1 == IF "patient_loaded" \notin DOMAIN ss THEN ss @@ SessionDefaults ELSE ss
         IN  IF m = "Live Dashboard" THEN
                 [session_state |-> ss1, view |-> DashboardPage(ss1)]
             ELSE IF m = "Risk Calculator" THEN
                 LET page == CalculatorPage(c, clicked)
                 IN  [session_state |-> IF page.load_button /\ clicked
                                        THEN LoadPatient(ss1, page, c) ELSE ss1,
                      view |-> page]
             ELSE [session_state |-> ss1, view |-> [page |-> m]]

\* The first run of the script shows the cover page.
Init ==
    /\ session_state = [entered_app |-> FALSE]
    /\ menu = "none"
    /\ calc = NoCalc
    /\ edits = 0
    /\ view = CoverPage
    /\ ScorerIdle
    /\ ThreatIdle
    /\ RestIdle

\* "Launch Dashboard": the callback enter_app, then a run with the sidebar radio
\* at its first entry.
Launch ==
    /\ ~session_state.entered_app
    /\ LET run == RunScript([session_state EXCEPT !.entered_app = TRUE],
                            "Live Dashboard", NoCalc, FALSE)
       IN  /\ session_state' = run.session_state
           /\ view' = run.view
    /\ menu' = "Live Dashboard"
    /\ UNCHANGED <<calc, edits, scorerVars, threatVars, restVars>>

\* The user picks another entry of the sidebar radio.
SelectMenu ==
    /\ session_state.entered_app
    /\ \E m \in Pages \ {menu} :
          /\ menu' = m
          /\ calc' = IF m = "Risk Calculator" THEN CalcDefaults ELSE NoCalc
          /\ LET run == RunScript(session_state, m, calc', FALSE)
             IN  /\ session_state' = run.session_state
                 /\ view' = run.view
    /\ UNCHANGED <<edits, scorerVars, threatVars, restVars>>

\* The user changes one widget of the Risk Calculator.
EditWidget ==
    /\ menu = "Risk Calculator"
    /\ edits < MaxEdits
    /\ \E w \in DOMAIN CalcDefaults :
          \E v \in CalcChoices[w] \ {calc[w]} :
             /\ calc' = [calc EXCEPT ![w] = v]
             /\ LET run == RunScript(session_state, menu, calc', FALSE)
                IN  /\ session_state' = run.session_state
                    /\ view' = run.view
    /\ edits' = edits + 1
    /\ UNCHANGED <<menu, scorerVars, threatVars, restVars>>

\* The user presses "Load Patient to Dashboard", which the page shows only in
\* its alert branch.
ClickLoad ==
    /\ menu = "Risk Calculator"
    /\ view.load_button
    /\ LET run == RunScript(session_state, menu, calc, TRUE)
       IN  /\ session_state' = run.session_state
           /\ view' = run.view
    /\ UNCHANGED <<menu, calc, edits, scorerVars, threatVars, restVars>>

\* The user presses "Approve Intervention" or "Snooze Alert": a run and nothing else.
ClickDashboardButton ==
    /\ menu = "Live Dashboard"
    /\ LET run == RunScript(session_state, menu, calc, FALSE)
       IN  /\ session_state' = run.session_state
           /\ view' = run.view
    /\ UNCHANGED <<menu, calc, edits, scorerVars, threatVars, restVars>>

Next ==
    \/ Launch
    \/ SelectMenu
    \/ EditWidget
    \/ ClickLoad
    \/ ClickDashboardButton

Spec == Init /\ [][Next]_vars

-----------------------------------------------------------------------------
(* SpecFocus: the same session, with the user's edits kept to the widgets  *)
(* of FocusWidgets and not counted.  Unchecking the first eight of them    *)
(* brings every category below 70, which is more edits away from the       *)
(* defaults than Spec allows; the ninth raises the AKI score and the       *)
(* tenth changes the stored patient_info.                                  *)

FocusWidgets == {"on_anticoag", "inr_calc", "hist_gi_bleed", "antibiotic_order",
                 "liver_disease", "alcohol_use", "impaired_renal", "on_insulin",
                 "on_acei_arb", "gender_calc"}

\* The user changes one of the widgets of FocusWidgets.
EditFocusWidget ==
    /\ menu = "Risk Calculator"
    /\ \E w \in FocusWidgets :
          \E v \in CalcChoices[w] \ {calc[w]} :
             /\ calc' = [calc EXCEPT ![w] = v]
             /\ LET run == RunScript(session_state, menu, calc', FALSE)
                IN  /\ session_state' = run.session_state
                    /\ view' = run.view
    /\ UNCHANGED <<menu, edits, scorerVars, threatVars, restVars>>

NextFocus ==
    \/ Launch
    \/ SelectMenu
    \/ EditFocusWidget
    \/ ClickLoad
    \/ ClickDashboardButton

SpecFocus == Init /\ [][NextFocus]_vars

-----------------------------------------------------------------------------
(* 6. A call of generate_detailed_alert on its own.  The Risk Calculator   *)
(* calls it with the category it selected and a dict built from its        *)
(* widgets; here the category and the widgets that the dict reads, with    *)
(* the anticoagulant checkbox beside them, are drawn from sets that hold   *)
(* both sides of each threshold the checklists test.                       *)

AlertCategories == {"Bleeding", "Hypoglycemic", "AKI"}

AlertWidgets ==
    [inr_calc : {350, 351}, weight_calc : {59, 60}, baseline_creat : {150, 151},
     antibiotic_order : BOOLEAN, on_antiplatelet : BOOLEAN, on_anticoag : BOOLEAN,
     alcohol_use : BOOLEAN, hist_gi_bleed : BOOLEAN, prior_stroke : BOOLEAN,
     impaired_renal : BOOLEAN, high_hba1c : BOOLEAN, recent_dka : BOOLEAN,
     active_chemo : BOOLEAN, contrast_exposure : BOOLEAN, on_acei_arb : BOOLEAN,
     on_diuretic : BOOLEAN]

InitAlert ==
    /\ alert_call \in [risk_type : AlertCategories, widgets : AlertWidgets]
    /\ alert_ret = NoAlert
    /\ ScorerIdle
    /\ ThreatIdle
    /\ SessionIdle
    /\ LookupIdle
    /\ ServerIdle

\* alert_message = generate_detailed_alert(risk_type, inputs)
CallAlert ==
    /\ alert_ret = NoAlert
    /\ alert_ret' = generate_detailed_alert(alert_call.risk_type,
                                            alert_inputs(alert_call.widgets))
    /\ UNCHANGED <<alert_call, scorerVars, threatVars, sessionVars, lookupVars, requests>>

NextAlert == CallAlert

SpecAlert == InitAlert /\ [][NextAlert]_vars

-----------------------------------------------------------------------------
(* 7. The drug-interaction lookup.  A Python string is held as the         *)
(* sequence of its characters, so that lower(), strip() and the `in` test  *)
(* on a description do what they do in Python.  A dict is held as the      *)
(* sequence of its entries, in the order of the source.                    *)

UpperCaseLetters == <<"A","B","C","D","E","F","G","H","I","J","K","L","M",
                      "N","O","P","Q","R","S","T","U","V","W","X","Y","Z">>
LowerCaseLetters == <<"a","b","c","d","e","f","g","h","i","j","k","l","m",
                      "n","o","p","q","r","s","t","u","v","w","x","y","z">>
Whitespace == {" ", "\t", "\n"}

\* str.lower()
lower(s) ==
    [i \in DOMAIN s |->
        IF \E k \in DOMAIN UpperCaseLetters : UpperCaseLetters[k] = s[i]
        THEN LowerCaseLetters[CHOOSE k \in DOMAIN UpperCaseLetters : UpperCaseLetters[k] = s[i]]
        ELSE s[i]]

\* str.lstrip() and str.rstrip(), of which str.strip() is made
RECURSIVE lstrip(_)
lstrip(s) == IF s # <<>> /\ Head(s) \in Whitespace THEN lstrip(Tail(s)) ELSE s

RECURSIVE rstrip(_)
rstrip(s) == IF s # <<>> /\ s[Len(s)] \in Whitespace THEN rstrip(SubSeq(s, 1, Len(s) - 1)) ELSE s

\* str.strip()
strip(s) == rstrip(lstrip(s))

\* `word in text` on two strings
Contains(text, word) ==
    \E i \in 1..(Len(text) - Len(word) + 1) : SubSeq(text, i, i + Len(word) - 1) = word

\* Python's None, and the truth value of a string or None
None == <<"None object">>
Truthy(x) == x # None /\ x # <<>>

\* `a or b`
PyOr(a, b) == IF Truthy(a) THEN a ELSE b

\* `key in d` and d.get(key) on a dict
HasKey(d, key) == \E i \in DOMAIN d : d[i].key = key
dict_get(d, key) == IF HasKey(d, key) THEN d[CHOOSE i \in DOMAIN d : d[i].key = key].value ELSE None

\* "No major interaction found."
NoInteraction == <<"N","o"," ","m","a","j","o","r"," ","i","n","t","e","r","a","c","t","i","o","n",
                 " ","f","o","u","n","d",".">>

\* interaction_db of src/backend/main.py
interaction_db ==
    <<
       [key |-> <<<<"w","a","r","f","a","r","i","n">>,
                  <<"a","m","i","o","d","a","r","o","n","e">>>>,
        value |-> <<"M","a","j","o","r",":"," ","A","m","i","o","d","a","r","i","d","e"," ","i","n",
                  "c","r","e","a","s","e","s"," ","I","N","R",","," ","h","i","g","h"," ","b","l",
                  "e","e","d","i","n","g"," ","r","i","s","k",".">>],
       [key |-> <<<<"w","a","r","f","a","r","i","n">>,
                  <<"i","b","u","p","r","o","f","e","n">>>>,
        value |-> <<"M","a","j","o","r",":"," ","N","S","A","I","D","s"," ","i","n","c","r","e","a",
                  "s","e"," ","b","l","e","e","d","i","n","g"," ","r","i","s","k"," ","w","i","t",
                  "h"," ","W","a","r","f","a","r","i","n",".">>],
       [key |-> <<<<"l","i","s","i","n","o","p","r","i","l">>,
                  <<"s","p","i","r","o","n","o","l","a","c","t","o","n","e">>>>,
        value |-> <<"M","a","j","o","r",":"," ","R","i","s","k"," ","o","f"," ","s","e","v","e","r",
                  "e"," ","h","y","p","e","r","k","a","l","e","m","i","a",".">>],
       [key |-> <<<<"i","b","u","p","r","o","f","e","n">>,
                  <<"l","i","s","i","n","o","p","r","i","l">>>>,
        value |-> <<"M","a","j","o","r",":"," ","S","e","v","e","r","e"," ","A","K","I"," ","r","i",
                  "s","k"," ","(","T","r","i","p","l","e"," ","W","h","a","m","m","y",")",".">>]
    >>

\* interaction_db of src/app.py
app_interaction_db ==
    <<
       [key |-> <<<<"w","a","r","f","a","r","i","n">>,
                  <<"a","m","i","o","d","a","r","o","n","e">>>>,
        value |-> <<"M","a","j","o","r",":"," ","A","m","i","o","d","a","r","i","d","e"," ","i","n",
                  "c","r","e","a","s","e","s"," ","I","N","R",","," ","h","i","g","h"," ","b","l",
                  "e","e","d","i","n","g"," ","r","i","s","k",".">>],
       [key |-> <<<<"w","a","r","f","a","r","i","n">>,
                  <<"i","b","u","p","r","o","f","e","n">>>>,
        value |-> <<"M","a","j","o","r",":"," ","N","S","A","I","D","s"," ","i","n","c","r","e","a",
                  "s","e"," ","b","l","e","e","d","i","n","g"," ","r","i","s","k"," ","w","i","t",
                  "h"," ","W","a","r","f","a","r","i","n",".">>],
       [key |-> <<<<"a","p","i","x","a","b","a","n">>,
                  <<"i","b","u","p","r","o","f","e","n">>>>,
        value |-> <<"M","o","d","e","r","a","t","e",":"," ","N","S","A","I","D","s"," ","i","n","c",
                  "r","e","a","s","e"," ","b","l","e","e","d","i","n","g"," ","r","i","s","k"," ",
                  "w","i","t","h"," ","A","p","i","x","a","b","a","n",".">>],
       [key |-> <<<<"c","l","o","p","i","d","o","g","r","e","l">>,
                  <<"a","s","p","i","r","i","n">>>>,
        value |-> <<"M","o","d","e","r","a","t","e",":"," ","D","u","a","l"," ","a","n","t","i","p",
                  "l","a","t","e","l","e","t"," ","t","h","e","r","a","p","y",","," ","i","n","c",
                  "r","e","a","s","e","s"," ","b","l","e","e","d"," ","r","i","s","k",".">>],
       [key |-> <<<<"r","i","v","a","r","o","x","a","b","a","n">>,
                  <<"f","l","u","c","o","n","a","z","o","l","e">>>>,
        value |-> <<"M","a","j","o","r",":"," ","F","l","u","c","o","n","a","z","o","l","e"," ","i",
                  "n","c","r","e","a","s","e","s"," ","R","i","v","a","r","o","x","a","b","a","n",
                  " ","l","e","v","e","l","s"," ","(","C","Y","P","3","A","4"," ","i","n","h","i",
                  "b","i","t","o","r",")",";"," ","h","i","g","h"," ","b","l","e","e","d","i","n",
                  "g"," ","r","i","s","k",".">>],
       [key |-> <<<<"w","a","r","f","a","r","i","n">>,
                  <<"p","a","r","a","c","e","t","a","m","o","l">>>>,
        value |-> <<"M","a","j","o","r",":"," ","P","a","r","a","c","e","t","a","m","o","l"," ","i",
                  "n","c","r","e","a","s","e","s"," ","W","a","r","f","a","r","i","n","'","s"," ",
                  "e","f","f","e","c","t",";"," ","h","i","g","h"," ","b","l","e","e","d","i","n",
                  "g"," ","r","i","s","k",".">>],
       [key |-> <<<<"s","e","r","t","r","a","l","i","n","e">>,
                  <<"w","a","r","f","a","r","i","n">>>>,
        value |-> <<"M","o","d","e","r","a","t","e",":"," ","S","S","R","I"," ","(","S","e","r","t",
                  "r","a","l","i","n","e",")"," ","c","o","m","b","i","n","e","d"," ","w","i","t",
                  "h"," ","W","a","r","f","a","r","i","n"," ","i","n","c","r","e","a","s","e","s",
                  " ","b","a","s","e","l","i","n","e"," ","b","l","e","e","d","i","n","g"," ","r",
                  "i","s","k",".">>],
       [key |-> <<<<"l","i","s","i","n","o","p","r","i","l">>,
                  <<"s","p","i","r","o","n","o","l","a","c","t","o","n","e">>>>,
        value |-> <<"M","a","j","o","r",":"," ","R","i","s","k"," ","o","f"," ","s","e","v","e","r",
                  "e"," ","h","y","p","e","r","k","a","l","e","m","i","a"," ","(","h","i","g","h",
                  " ","p","o","t","a","s","s","i","u","m",")",".">>],
       [key |-> <<<<"i","b","u","p","r","o","f","e","n">>,
                  <<"l","i","s","i","n","o","p","r","i","l">>>>,
        value |-> <<"M","a","j","o","r",":"," ","S","e","v","e","r","e"," ","A","K","I"," ","r","i",
                  "s","k"," ","(","T","r","i","p","l","e"," ","W","h","a","m","m","y"," ","c","o",
                  "m","p","o","n","e","n","t",")",".">>],
       [key |-> <<<<"f","u","r","o","s","e","m","i","d","e">>,
                  <<"l","i","s","i","n","o","p","r","i","l">>>>,
        value |-> <<"M","a","j","o","r",":"," ","D","i","u","r","e","t","i","c"," ","+"," ","A","C",
                  "E","i"," ","c","a","u","s","e","s"," ","s","e","v","e","r","e"," ","h","y","p",
                  "o","t","e","n","s","i","o","n"," ","a","n","d"," ","A","K","I"," ","r","i","s",
                  "k",".">>],
       [key |-> <<<<"p","r","e","d","n","i","s","o","n","e">>,
                  <<"f","u","r","o","s","e","m","i","d","e">>>>,
        value |-> <<"M","a","j","o","r",":"," ","S","t","e","r","o","i","d"," ","+"," ","D","i","u",
                  "r","e","t","i","c"," ","i","n","c","r","e","a","s","e","s"," ","r","i","s","k",
                  " ","o","f"," ","s","e","v","e","r","e"," ","h","y","p","o","k","a","l","e","m",
                  "i","a"," ","(","l","o","w"," ","p","o","t","a","s","s","i","u","m",")",".">>],
       [key |-> <<<<"l","i","t","h","i","u","m">>,
                  <<"h","y","d","r","o","c","h","l","o","r","o","t","h","i","a","z","i","d","e">>>>,
        value |-> <<"M","a","j","o","r",":"," ","D","i","u","r","e","t","i","c"," ","(","H","C","T",
                  "Z",")"," ","i","n","c","r","e","a","s","e","s"," ","L","i","t","h","i","u","m",
                  " ","t","o","x","i","c","i","t","y"," ","r","i","s","k"," ","b","y"," ","s","l",
                  "o","w","i","n","g"," ","e","x","c","r","e","t","i","o","n",".">>],
       [key |-> <<<<"a","l","l","o","p","u","r","i","n","o","l">>,
                  <<"a","z","a","t","h","i","o","p","r","i","n","e">>>>,
        value |-> <<"M","a","j","o","r",":"," ","A","l","l","o","p","u","r","i","n","o","l"," ","d",
                  "r","a","m","a","t","i","c","a","l","l","y"," ","i","n","c","r","e","a","s","e",
                  "s"," ","A","z","a","t","h","i","o","p","r","i","n","e"," ","t","o","x","i","c",
                  "i","t","y"," ","a","n","d"," ","r","i","s","k"," ","o","f"," ","s","e","v","e",
                  "r","e"," ","b","o","n","e"," ","m","a","r","r","o","w"," ","s","u","p","p","r",
                  "e","s","s","i","o","n",".">>],
       [key |-> <<<<"g","l","i","p","i","z","i","d","e">>,
                  <<"a","l","c","o","h","o","l">>>>,
        value |-> <<"M","a","j","o","r",":"," ","I","n","c","r","e","a","s","e","d"," ","r","i","s",
                  "k"," ","o","f"," ","s","e","v","e","r","e"," ","h","y","p","o","g","l","y","c",
                  "e","m","i","a",".">>],
       [key |-> <<<<"m","e","t","f","o","r","m","i","n">>,
                  <<"c","i","m","e","t","i","d","i","n","e">>>>,
        value |-> <<"M","o","d","e","r","a","t","e",":"," ","C","i","m","e","t","i","d","i","n","e",
                  " ","i","n","c","r","e","a","s","e","s"," ","M","e","t","f","o","r","m","i","n",
                  " ","l","e","v","e","l","s",","," ","r","a","i","s","i","n","g"," ","h","y","p",
                  "o","g","l","y","c","e","m","i","a"," ","r","i","s","k",".">>],
       [key |-> <<<<"t","r","i","m","e","t","h","o","p","r","i","m","/","s","u","l","f","a","m","e","t","h","o","x","a","z","o","l","e">>,
                  <<"m","e","t","f","o","r","m","i","n">>>>,
        value |-> <<"M","a","j","o","r",":"," ","T","M","P","/","S","M","X"," ","i","n","c","r","e",
                  "a","s","e","s"," ","M","e","t","f","o","r","m","i","n"," ","l","e","v","e","l",
                  "s",","," ","h","i","g","h"," ","h","y","p","o","g","l","y","c","e","m","i","a",
                  " ","r","i","s","k",".">>],
       [key |-> <<<<"m","e","t","o","p","r","o","l","o","l">>,
                  <<"i","n","s","u","l","i","n">>>>,
        value |-> <<"M","o","d","e","r","a","t","e",":"," ","B","e","t","a","-","b","l","o","c","k",
                  "e","r"," ","(","M","e","t","o","p","r","o","l","o","l",")"," ","c","a","n"," ",
                  "m","a","s","k"," ","t","h","e"," ","w","a","r","n","i","n","g"," ","s","i","g",
                  "n","s"," ","o","f"," ","h","y","p","o","g","l","y","c","e","m","i","a",".">>],
       [key |-> <<<<"s","e","r","t","r","a","l","i","n","e">>,
                  <<"s","u","m","a","t","r","i","p","t","a","n">>>>,
        value |-> <<"M","a","j","o","r",":"," ","B","o","t","h"," ","i","n","c","r","e","a","s","e",
                  " ","s","e","r","o","t","o","n","i","n"," ","l","e","v","e","l","s",";"," ","h",
                  "i","g","h"," ","r","i","s","k"," ","o","f"," ","S","e","r","o","t","o","n","i",
                  "n"," ","S","y","n","d","r","o","m","e",".">>],
       [key |-> <<<<"a","z","i","t","h","r","o","m","y","c","i","n">>,
                  <<"a","m","i","o","d","a","r","o","n","e">>>>,
        value |-> <<"M","a","j","o","r",":"," ","B","o","t","h"," ","p","r","o","l","o","n","g"," ",
                  "Q","T"," ","i","n","t","e","r","v","a","l",";"," ","h","i","g","h"," ","r","i",
                  "s","k"," ","o","f"," ","f","a","t","a","l"," ","a","r","r","h","y","t","h","m",
                  "i","a",".">>],
       [key |-> <<<<"m","e","t","o","p","r","o","l","o","l">>,
                  <<"d","i","l","t","i","a","z","e","m">>>>,
        value |-> <<"M","a","j","o","r",":"," ","B","o","t","h"," ","s","l","o","w"," ","h","e","a",
                  "r","t"," ","r","a","t","e",";"," ","h","i","g","h"," ","r","i","s","k"," ","o",
                  "f"," ","s","e","v","e","r","e"," ","b","r","a","d","y","c","a","r","d","i","a",
                  " ","a","n","d"," ","h","y","p","o","t","e","n","s","i","o","n",".">>]
    >>

\* POST /interaction of src/backend/main.py, the value of "result"; first with
\* the key looked up in the order given only, then as the source has it.
check_interaction_one_order(drug1, drug2) ==
    LET d1 == strip(lower(drug1))
        d2 == strip(lower(drug2))
    IN  PyOr(dict_get(interaction_db, <<d1, d2>>), NoInteraction)

check_interaction(drug1, drug2) ==
    LET d1 == strip(lower(drug1))
        d2 == strip(lower(drug2))
    IN  PyOr(PyOr(dict_get(interaction_db, <<d1, d2>>), dict_get(interaction_db, <<d2, d1>>)),
             NoInteraction)

\* check_interaction of src/app.py; first without its last return, then as the
\* source has it.
app_check_interaction_no_default(drug1, drug2) ==
    LET d1 == strip(lower(drug1))
        d2 == strip(lower(drug2))
    IN  IF HasKey(app_interaction_db, <<d1, d2>>) THEN dict_get(app_interaction_db, <<d1, d2>>)
        ELSE dict_get(app_interaction_db, <<d2, d1>>)

app_check_interaction(drug1, drug2) ==
    LET d1 == strip(lower(drug1))
        d2 == strip(lower(drug2))
    IN  IF HasKey(app_interaction_db, <<d1, d2>>) THEN dict_get(app_interaction_db, <<d1, d2>>)
        ELSE IF HasKey(app_interaction_db, <<d2, d1>>) THEN dict_get(app_interaction_db, <<d2, d1>>)
        ELSE NoInteraction

\* PAGE 3, Medication Checker: the box the result is shown in, st.error for
\* "Major", st.warning for "Moderate", st.success otherwise; nothing is shown
\* while either text input is empty.
NotChecked == [interaction |-> None, shown |-> "nothing"]

medication_checker_any_case(d1, d2) ==
    IF Truthy(d1) /\ Truthy(d2)
    THEN LET interaction == app_check_interaction(d1, d2)
         IN  [interaction |-> interaction,
              shown |-> IF Contains(lower(interaction), lower(<<"M","a","j","o","r">>)) THEN "st.error"
                        ELSE IF Contains(lower(interaction), lower(<<"M","o","d","e","r","a","t","e">>)) THEN "st.warning"
                        ELSE "st.success"]
    ELSE NotChecked

medication_checker(d1, d2) ==
    IF Truthy(d1) /\ Truthy(d2)
    THEN LET interaction == app_check_interaction(d1, d2)
         IN  [interaction |-> interaction,
              shown |-> IF Contains(interaction, <<"M","a","j","o","r">>) THEN "st.error"
                        ELSE IF Contains(interaction, <<"M","o","d","e","r","a","t","e">>) THEN "st.warning"
                        ELSE "st.success"]
    ELSE NotChecked

\* What a user may type into a name field: the names of both tables, six of them
\* also capitalised, in capitals and with whitespace around them, two names that
\* no table holds, a name with a blank inside, the blank and the empty string.
upper(s) ==
    [i \in DOMAIN s |->
        IF \E k \in DOMAIN LowerCaseLetters : LowerCaseLetters[k] = s[i]
        THEN UpperCaseLetters[CHOOSE k \in DOMAIN LowerCaseLetters : LowerCaseLetters[k] = s[i]]
        ELSE s[i]]

Capitalised(s) == upper(<<Head(s)>>) \o Tail(s)

Typings(name) ==
    {name, Capitalised(name), upper(name), <<" ">> \o upper(name) \o <<" ">>,
     name \o <<" ", "\t">>, <<"\n">> \o Capitalised(name)}

TableNames ==
    {interaction_db[i].key[k] : i \in DOMAIN interaction_db, k \in 1..2}
        \cup {app_interaction_db[i].key[k] : i \in DOMAIN app_interaction_db, k \in 1..2}

VariedNames ==
    {<<"w","a","r","f","a","r","i","n">>, <<"a","m","i","o","d","a","r","o","n","e">>,
     <<"a","s","p","i","r","i","n">>, <<"m","e","t","f","o","r","m","i","n">>,
     <<"i","b","u","p","r","o","f","e","n">>, <<"l","i","s","i","n","o","p","r","i","l">>}

TypedNames ==
    TableNames \cup UNION {Typings(name) : name \in VariedNames}
        \cup {<<"z","i","n","c">>, <<"t","y","l","e","n","o","l">>,
              <<"w","a","r"," ","f","a","r","i","n">>, <<" ">>, <<>>}

InitLookup ==
    /\ drugs \in [drug1 : TypedNames, drug2 : TypedNames]
    /\ found = [api |-> None, app |-> NotChecked]
    /\ ScorerIdle
    /\ ThreatIdle
    /\ SessionIdle
    /\ AlertIdle
    /\ ServerIdle

\* A POST of the two names to /interaction
PostInteraction ==
    /\ found # NoFound
    /\ found.api = None
    /\ found' = [found EXCEPT !.api = check_interaction(drugs.drug1, drugs.drug2)]
    /\ UNCHANGED <<drugs, scorerVars, threatVars, sessionVars, alertVars, requests>>

\* A run of the Medication Checker page with the two names in its text inputs
RunMedicationChecker ==
    /\ found # NoFound
    /\ found.app = NotChecked
    /\ Truthy(drugs.drug1) /\ Truthy(drugs.drug2)
    /\ found' = [found EXCEPT !.app = medication_checker(drugs.drug1, drugs.drug2)]
    /\ UNCHANGED <<drugs, scorerVars, threatVars, sessionVars, alertVars, requests>>

NextLookup == PostInteraction \/ RunMedicationChecker

SpecLookup == InitLookup /\ [][NextLookup]_vars

-----------------------------------------------------------------------------
(* 8. The FastAPI service of src/backend/main.py.  A request carries a     *)
(* JSON body, held as a function from the names it gives to their values.  *)
(* FastAPI validates the body against the endpoint's pydantic model (a     *)
(* field without default is required, a missing optional field takes its   *)
(* default, a body that fails is answered 422) and then runs the endpoint  *)
(* function in a worker thread, each call with local variables of its own. *)
(* A request here goes through validation, the statements that fill the    *)
(* locals, and the return.                                                 *)

\* class PatientInput: the fields declared with a default; first with one of
\* the flags defaulting to True, then as the source has them.
PatientInputDefaults_renal_true ==
    [race |-> "Other", inr |-> 100, baseline_creat |-> 90,
     antibiotic_order |-> FALSE, dietary_change |-> FALSE, contrast_exposure |-> FALSE,
     on_anticoag |-> FALSE, on_antiplatelet |-> FALSE, on_insulin |-> FALSE,
     on_diuretic |-> FALSE, on_acei_arb |-> FALSE, prior_stroke |-> FALSE,
     hist_gi_bleed |-> FALSE, uncontrolled_bp |-> FALSE, smoking_calc |-> FALSE,
     alcohol_use |-> FALSE, liver_disease |-> FALSE, high_hba1c |-> FALSE,
     neuropathy_history |-> FALSE, impaired_renal |-> TRUE, recent_dka |-> FALSE,
     active_chemo |-> FALSE]

PatientInputDefaults ==
    [race |-> "Other", inr |-> 100, baseline_creat |-> 90,
     antibiotic_order |-> FALSE, dietary_change |-> FALSE, contrast_exposure |-> FALSE,
     on_anticoag |-> FALSE, on_antiplatelet |-> FALSE, on_insulin |-> FALSE,
     on_diuretic |-> FALSE, on_acei_arb |-> FALSE, prior_stroke |-> FALSE,
     hist_gi_bleed |-> FALSE, uncontrolled_bp |-> FALSE, smoking_calc |-> FALSE,
     alcohol_use |-> FALSE, liver_disease |-> FALSE, high_hba1c |-> FALSE,
     neuropathy_history |-> FALSE, impaired_renal |-> FALSE, recent_dka |-> FALSE,
     active_chemo |-> FALSE]

\* class PatientInput: the fields declared without a default
PatientInputRequired == {"age", "gender", "weight"}

\* class InteractionInput: both fields are declared without a default
InteractionInputRequired == {"drug1", "drug2"}

Unprocessable == [status |-> 422, json |-> [detail |-> "validation error"]]
NoResponse    == [status |-> 0, json |-> [detail |-> "none"]]
NoFrame       == [p |-> [none |-> TRUE]]

\* The PatientInput built from a body, or the 422 answer
validate_PatientInput(body) ==
    IF /\ PatientInputRequired \subseteq DOMAIN body
       /\ body.age >= 18 /\ body.age <= 100
    THEN [ok |-> TRUE, p |-> body @@ PatientInputDefaults]
    ELSE [ok |-> FALSE, p |-> [none |-> TRUE]]

\* The InteractionInput built from a body, or the 422 answer
validate_InteractionInput(body) ==
    IF InteractionInputRequired \subseteq DOMAIN body
    THEN [ok |-> TRUE, p |-> body]
    ELSE [ok |-> FALSE, p |-> [none |-> TRUE]]

\* calculate_risks: the four assignments b_risk, h_risk, a_risk, fragility
calculate_risks_locals(p) ==
    [p |-> p,
     b_risk |-> calculate_bleeding_risk(p.age, p.inr, p.on_anticoag, p.hist_gi_bleed,
                    p.uncontrolled_bp, p.on_antiplatelet, p.gender, p.weight, p.smoking_calc,
                    p.alcohol_use, p.antibiotic_order, p.dietary_change, p.liver_disease,
                    p.prior_stroke),
     h_risk |-> calculate_hypoglycemic_risk(p.on_insulin, p.impaired_renal, p.high_hba1c,
                    p.neuropathy_history, p.gender, p.weight, p.recent_dka),
     a_risk |-> calculate_aki_risk(p.age, p.on_diuretic, p.on_acei_arb, p.uncontrolled_bp,
                    p.active_chemo, p.gender, p.weight, p.race, p.baseline_creat,
                    p.contrast_exposure),
     fragility |-> calculate_comorbidity_load(p.prior_stroke, p.active_chemo, p.recent_dka,
                    p.liver_disease, p.smoking_calc, p.uncontrolled_bp)]

\* check_interaction: the assignment of d1, d2
check_interaction_locals(i) ==
    [p |-> i, d1 |-> strip(lower(i.drug1)), d2 |-> strip(lower(i.drug2))]

\* check_interaction: the assignment of result, from d1, d2 and the module's table
check_interaction_result(d1, d2) ==
    PyOr(PyOr(dict_get(interaction_db, <<d1, d2>>), dict_get(interaction_db, <<d2, d1>>)),
         NoInteraction)

\* Where the locals of a call are kept: in the frame of that call.  The first
\* definition keeps them in one place for all calls of an endpoint instead, as
\* module-level variables would be.
store_locals_in_module(reqs, i, locals) ==
    [j \in DOMAIN reqs |->
        IF reqs[j].endpoint = reqs[i].endpoint /\ reqs[j].pc # "responded"
        THEN [reqs[j] EXCEPT !.frame = locals, !.pc = IF j = i THEN "assigned" ELSE @]
        ELSE reqs[j]]

store_locals(reqs, i, locals) ==
    [reqs EXCEPT ![i].frame = locals, ![i].pc = "assigned"]

NewRequest(endpoint, body) ==
    [endpoint |-> endpoint, body |-> body, pc |-> "received",
     frame |-> NoFrame, response |-> NoResponse]

\* FastAPI validates the body of request i.
Validate(i) ==
    /\ requests[i].pc = "received"
    /\ LET v == IF requests[i].endpoint = "/calculate"
                THEN validate_PatientInput(requests[i].body)
                ELSE validate_InteractionInput(requests[i].body)
       IN  requests' = IF v.ok
                       THEN [requests EXCEPT ![i].pc = "validated", ![i].frame = [p |-> v.p]]
                       ELSE [requests EXCEPT ![i].pc = "responded", ![i].response = Unprocessable]
    /\ UNCHANGED <<scorerVars, threatVars, sessionVars, alertVars, lookupVars>>

\* calculate_risks up to the assignment of fragility
Score(i) ==
    /\ requests[i].endpoint = "/calculate" /\ requests[i].pc = "validated"
    /\ requests' = store_locals(requests, i, calculate_risks_locals(requests[i].frame.p))
    /\ UNCHANGED <<scorerVars, threatVars, sessionVars, alertVars, lookupVars>>

\* calculate_risks from `risks = {...}` to the return
RespondCalculate(i) ==
    /\ requests[i].endpoint = "/calculate" /\ requests[i].pc = "assigned"
    /\ LET f == requests[i].frame
       IN  requests' = [requests EXCEPT ![i].pc = "responded",
                           ![i].response = [status |-> 200,
                                            json |-> calculate_risks_response(f.b_risk, f.h_risk,
                                                                            f.a_risk, f.fragility)]]
    /\ UNCHANGED <<scorerVars, threatVars, sessionVars, alertVars, lookupVars>>

\* check_interaction up to the assignment of d1, d2
Normalize(i) ==
    /\ requests[i].endpoint = "/interaction" /\ requests[i].pc = "validated"
    /\ requests' = store_locals(requests, i, check_interaction_locals(requests[i].frame.p))
    /\ UNCHANGED <<scorerVars, threatVars, sessionVars, alertVars, lookupVars>>

\* check_interaction from the assignment of result to the return
RespondInteraction(i) ==
    /\ requests[i].endpoint = "/interaction" /\ requests[i].pc = "assigned"
    /\ LET f == requests[i].frame
       IN  requests' = [requests EXCEPT ![i].pc = "responded",
                           ![i].response = [status |-> 200,
                                            json |-> [result |-> check_interaction_result(f.d1, f.d2)]]]
    /\ UNCHANGED <<scorerVars, threatVars, sessionVars, alertVars, lookupVars>>


-----------------------------------------------------------------------------
(* SpecDefaults: one /calculate request.  A client writes its body field   *)
(* by field, any of age, gender and weight and at most MaxGiven of the     *)
(* other fields, each with a value that scores nothing or one that scores, *)
(* and posts it.                                                           *)

MaxGiven == 2

\* The values a body may give a field; the last age is below the model's minimum.
FieldValues ==
    [age |-> {60, 78, 17}, gender |-> {"Male", "Female"}, weight |-> {75, 55},
     race |-> {"Other", "Non-Hispanic Black"}, inr |-> {100, 410}, baseline_creat |-> {90, 200}]
    @@ [f \in DOMAIN PatientInputDefaults |-> BOOLEAN]

InitDefaults ==
    /\ requests = <<[NewRequest("/calculate", <<>>) EXCEPT !.pc = "drafted"]>>
    /\ ScorerIdle
    /\ ThreatIdle
    /\ SessionIdle
    /\ AlertIdle
    /\ LookupIdle

\* The client adds one field to the body it is writing.
GiveField ==
    /\ requests[1].pc = "drafted"
    /\ \E f \in DOMAIN FieldValues \ DOMAIN requests[1].body :
          /\ f \in DOMAIN PatientInputDefaults =>
                Cardinality(DOMAIN requests[1].body \cap DOMAIN PatientInputDefaults) < MaxGiven
          /\ \E v \in FieldValues[f] :
                requests' = [requests EXCEPT ![1].body = (f :> v) @@ requests[1].body]
    /\ UNCHANGED <<scorerVars, threatVars, sessionVars, alertVars, lookupVars>>

\* requests.post(f"{API_URL}/calculate", json=payload)
PostCalculate ==
    /\ requests[1].pc = "drafted"
    /\ requests' = [requests EXCEPT ![1].pc = "received"]
    /\ UNCHANGED <<scorerVars, threatVars, sessionVars, alertVars, lookupVars>>

NextDefaults ==
    \/ GiveField
    \/ PostCalculate
    \/ \E i \in DOMAIN requests : Validate(i) \/ Score(i) \/ RespondCalculate(i)

SpecDefaults == InitDefaults /\ [][NextDefaults]_vars

-----------------------------------------------------------------------------
(* SpecServer: up to MaxRequests requests are in the service at once, and  *)
(* the steps of their handlers interleave in every order.                  *)

MaxRequests == 3

\* The calls clients make: a patient who scores nothing, one who scores high,
\* a body without age, a pair of the table, a pair of no table, a body
\* without drug2.
ServerCalls ==
    {<<"/calculate", [age |-> 60, gender |-> "Male", weight |-> 75]>>,
     <<"/calculate", [age |-> 78, gender |-> "Female", weight |-> 55, inr |-> 410,
                      on_anticoag |-> TRUE, on_insulin |-> TRUE, impaired_renal |-> TRUE]>>,
     <<"/calculate", [gender |-> "Male", weight |-> 75]>>,
     <<"/interaction", [drug1 |-> <<"W","a","r","f","a","r","i","n">>,
                        drug2 |-> <<" ","A","M","I","O","D","A","R","O","N","E">>]>>,
     <<"/interaction", [drug1 |-> <<"A","s","p","i","r","i","n">>,
                        drug2 |-> <<"M","e","t","f","o","r","m","i","n">>]>>,
     <<"/interaction", [drug1 |-> <<"W","a","r","f","a","r","i","n">>]>>}

InitServer ==
    /\ requests = <<>>
    /\ ScorerIdle
    /\ ThreatIdle
    /\ SessionIdle
    /\ AlertIdle
    /\ LookupIdle

\* A request reaches the service.
Arrive ==
    /\ Len(requests) < MaxRequests
    /\ \E call \in ServerCalls : requests' = Append(requests, NewRequest(call[1], call[2]))
    /\ UNCHANGED <<scorerVars, threatVars, sessionVars, alertVars, lookupVars>>

NextServer ==
    \/ Arrive
    \/ \E i \in DOMAIN requests :
          Validate(i) \/ Score(i) \/ RespondCalculate(i) \/ Normalize(i) \/ RespondInteraction(i)

SpecServer == InitServer /\ [][NextServer]_vars

-----------------------------------------------------------------------------
(* SpecCopies: the two copies of the engine side by side: the calls of     *)
(* SpecScorers, which evaluate both copies of a scorer on one argument     *)
(* list, and the lookups of SpecLookup, which put one pair of names to     *)
(* both copies of check_interaction.                                       *)

InitCopies == InitScorers \/ InitLookup

NextCopies == NextScorers \/ NextLookup

SpecCopies == InitCopies /\ [][NextCopies]_vars

-----------------------------------------------------------------------------
(* Claims about the scorers, checked under SpecScorers.  The weights below *)
(* are those of the specification's section 4, written as tables of        *)
(* <<condition, points>>, independently of the model of the code.          *)

Returned == ret # NotReturned

RECURSIVE SumPoints(_)
SumPoints(table) ==
    IF table = <<>> THEN 0
    ELSE (IF Head(table)[1] THEN Head(table)[2] ELSE 0) + SumPoints(Tail(table))

DocumentedBleeding(a) ==
    << <<a.anticoagulant, 35>>, <<a.inr > 350, 40>>, <<a.gi_bleed, 30>>,
       <<a.antiplatelet_use, 15>>, <<a.antibiotic_order, 25>>, <<a.alcohol_use, 15>>,
       <<a.liver_disease, 20>>, <<a.dietary_change, 10>>, <<a.age > 70, 10>>,
       <<a.high_bp, 10>>, <<a.smoking, 10>>, <<a.gender = "Female", 5>>,
       <<a.weight > 120 \/ a.weight < 50, 15>>, <<a.prior_stroke, 15>> >>

DocumentedHypoglycemic(a) ==
    << <<a.insulin_use, 30>>, <<a.renal_status, 45>>, <<a.high_hba1c, 20>>,
       <<a.neuropathy_history, 10>>, <<a.weight < 60, 10>>, <<a.recent_dka, 20>> >>

DocumentedAki(a) ==
    << <<a.diuretic_use, 30>>, <<a.acei_arb_use, 40>>, <<a.contrast_exposure, 25>>,
       <<a.age > 75, 20>>, <<a.high_bp, 10>>, <<a.active_chemo, 20>>,
       <<a.race = "Non-Hispanic Black", 15>>, <<a.baseline_creat > 150, 30>> >>

DocumentedComorbidity(a) ==
    << <<a.prior_stroke, 25>>, <<a.active_chemo, 30>>, <<a.recent_dka, 20>>,
       <<a.liver_disease, 15>>, <<a.smoking, 10>>, <<a.high_bp, 10>> >>

\* The documented weight of one boolean flag of one scorer.
DocumentedWeight(f, flag) ==
    CASE f = "bleeding" ->
            [anticoagulant |-> 35, gi_bleed |-> 30, antiplatelet_use |-> 15,
             antibiotic_order |-> 25, alcohol_use |-> 15, liver_disease |-> 20,
             dietary_change |-> 10, high_bp |-> 10, smoking |-> 10,
             prior_stroke |-> 15][flag]
      [] f = "hypoglycemic" ->
            [insulin_use |-> 30, renal_status |-> 45, high_hba1c |-> 20,
             neuropathy_history |-> 10, recent_dka |-> 20][flag]
      [] f = "aki" ->
            [diuretic_use |-> 30, acei_arb_use |-> 40, contrast_exposure |-> 25,
             high_bp |-> 10, active_chemo |-> 20][flag]
      [] f = "comorbidity" ->
            [prior_stroke |-> 25, active_chemo |-> 30, recent_dka |-> 20,
             liver_disease |-> 15, smoking |-> 10, high_bp |-> 10][flag]

EveryBleedingConditionTrue(a) ==
    /\ \A f \in BleedingFlags : a[f]
    /\ a.inr > 350 /\ a.age > 70 /\ a.gender = "Female"
    /\ (a.weight > 120 \/ a.weight < 50)

\* C1: whatever the inputs, each of the four scorers (either copy) returns an
\* integer between 0 and 100; the bleeding score with every condition true, whose
\* raw sum is 255, is exactly 100.
C1_ScoresWithin0And100 ==
    Returned =>
        /\ ret.api \in 0..100
        /\ ret.app \in 0..100
        /\ (fn = "bleeding" /\ EveryBleedingConditionTrue(args)) =>
              /\ SumPoints(DocumentedBleeding(args)) = 255
              /\ ret.api = 100 /\ ret.app = 100

C1_Witness ==
    /\ fn = "bleeding" /\ Returned /\ toggled = "none"
    /\ EveryBleedingConditionTrue(args)
    /\ ret.api = 100 /\ ret.app = 100

\* The worked example of the specification: age 78, INR 4.1, weight 55, Female,
\* every flag true except the dietary change.
BleedingExample ==
    [age |-> 78, inr |-> 410, gender |-> "Female", weight |-> 55,
     anticoagulant |-> TRUE, gi_bleed |-> TRUE, high_bp |-> TRUE,
     antiplatelet_use |-> TRUE, smoking |-> TRUE, alcohol_use |-> TRUE,
     antibiotic_order |-> TRUE, dietary_change |-> FALSE, liver_disease |-> TRUE,
     prior_stroke |-> TRUE]

\* C2: calculate_bleeding_risk returns min(100, S), S the sum of the fourteen
\* documented weights over the conditions that hold; the worked example has
\* S = 230 and result 100.
C2_BleedingIsClampedWeightedSum ==
    (fn = "bleeding" /\ Returned) =>
        /\ ret.api = Min(100, SumPoints(DocumentedBleeding(args)))
        /\ ret.app = Min(100, SumPoints(DocumentedBleeding(args)))
        /\ args = BleedingExample =>
              SumPoints(DocumentedBleeding(args)) = 230 /\ ret.api = 100 /\ ret.app = 100

C2_Witness ==
    /\ fn = "bleeding" /\ Returned /\ args = BleedingExample
    /\ ret.api = 100 /\ ret.app = 100

\* The gender and weight arguments an AKI or hypoglycemia call is compared on.
AnyWeight == 30..150

\* C3: calculate_aki_risk returns min(100, S), S the sum of the eight documented
\* weights over the conditions that hold; changing only the gender or only the
\* weight argument does not change the result; with all flags false, age 60,
\* creatinine 0.9 and race Other the result is 0.
C3_AkiIsClampedWeightedSum ==
    (fn = "aki" /\ Returned) =>
        /\ ret.api = Min(100, SumPoints(DocumentedAki(args)))
        /\ ret.app = Min(100, SumPoints(DocumentedAki(args)))
        /\ \A g \in Genders : AkiCall([args EXCEPT !.gender = g]) = ret
        /\ \A w \in AnyWeight : AkiCall([args EXCEPT !.weight = w]) = ret
        /\ ( /\ \A f \in AkiFlags : ~args[f]
             /\ args.age = 60 /\ args.baseline_creat = 90 /\ args.race = "Other" )
           => ret.api = 0 /\ ret.app = 0

C3_Witness ==
    /\ fn = "aki" /\ Returned
    /\ args.age = 76 /\ args.baseline_creat = 151 /\ args.race = "Non-Hispanic Black"
    /\ args.diuretic_use /\ ~args.acei_arb_use /\ ~args.contrast_exposure
    /\ ~args.high_bp /\ ~args.active_chemo
    /\ ret.api = 95 /\ ret.app = 95

\* C4: calculate_hypoglycemic_risk returns min(100, S), S the sum of the six
\* documented weights over the conditions that hold; the gender argument never
\* changes the result; insulin, impaired renal, high HbA1c and recent DKA true,
\* neuropathy false, weight 55 give S = 125 and result 100.
C4_HypoglycemicIsClampedWeightedSum ==
    (fn = "hypoglycemic" /\ Returned) =>
        /\ ret.api = Min(100, SumPoints(DocumentedHypoglycemic(args)))
        /\ ret.app = Min(100, SumPoints(DocumentedHypoglycemic(args)))
        /\ \A g \in Genders : HypoglycemicCall([args EXCEPT !.gender = g]) = ret
        /\ ( /\ args.insulin_use /\ args.renal_status /\ args.high_hba1c
             /\ args.recent_dka /\ ~args.neuropathy_history /\ args.weight = 55 )
           => SumPoints(DocumentedHypoglycemic(args)) = 125 /\ ret.api = 100 /\ ret.app = 100

C4_Witness ==
    /\ fn = "hypoglycemic" /\ Returned /\ toggled = "none"
    /\ args.insulin_use /\ args.renal_status /\ args.high_hba1c
    /\ args.recent_dka /\ ~args.neuropathy_history /\ args.weight = 55
    /\ ret.api = 100 /\ ret.app = 100

\* C5: calculate_comorbidity_load returns min(100, S), S the sum of the six
\* documented weights over the flags that are true; all six true give raw 110
\* and result 100.
C5_ComorbidityIsClampedWeightedSum ==
    (fn = "comorbidity" /\ Returned) =>
        /\ ret.api = Min(100, SumPoints(DocumentedComorbidity(args)))
        /\ ret.app = Min(100, SumPoints(DocumentedComorbidity(args)))
        /\ (\A f \in ComorbidityFlags : args[f]) =>
              SumPoints(DocumentedComorbidity(args)) = 110 /\ ret.api = 100 /\ ret.app = 100

C5_Witness ==
    /\ fn = "comorbidity" /\ Returned
    /\ \A f \in ComorbidityFlags : args[f]
    /\ ret.api = 100 /\ ret.app = 100

\* C6 as stated: switching one weighed flag from false to true, when the score
\* with the flag false is not already 100, raises the score by exactly the
\* flag's documented weight.
C6_AsStated ==
    (toggled # "none" /\ before.api # 100 /\ before.app # 100) =>
        /\ ret.api = before.api + DocumentedWeight(fn, toggled)
        /\ ret.app = before.app + DocumentedWeight(fn, toggled)

\* C6 as amended: switching one weighed flag from false to true takes the score
\* s to min(100, s + w), w the flag's documented weight: the change is exactly w
\* when s + w <= 100, is cut short at 100 when s < 100 < s + w, and is zero only
\* when s is already 100.
C6_ToggleAddsWeightUpTo100 ==
    toggled # "none" =>
        /\ ret.api = Min(100, before.api + DocumentedWeight(fn, toggled))
        /\ ret.app = Min(100, before.app + DocumentedWeight(fn, toggled))
        /\ (ret.api = before.api) <=> (before.api = 100)
        /\ (ret.app = before.app) <=> (before.app = 100)
        /\ (before.api + DocumentedWeight(fn, toggled) <= 100) =>
              ret.api - before.api = DocumentedWeight(fn, toggled)

\* A flag whose weight is cut short by the clamp: the score was below 100 and
\* rose by less than the weight.
C6_Witness ==
    /\ toggled # "none" /\ before.api < 100
    /\ before.api + DocumentedWeight(fn, toggled) > 100
    /\ ret.api = 100 /\ ret.app = 100


-----------------------------------------------------------------------------
(* Claims about the selections, checked under SpecThreat. *)

\* The category a selection's name stands for: 1 Bleeding, 2 Hypoglycemia, 3 AKI.
CategoryOf(name) ==
    CASE name \in {"Bleeding", "Bleeding Risk"}                           -> 1
      [] name \in {"Hypoglycemia", "Hypoglycemic", "Hypoglycemic Risk"}   -> 2
      [] name \in {"AKI", "AKI Risk"}                                     -> 3
      [] OTHER                                                            -> 0

MaxRisk == Max3(risks.bleeding, risks.hypoglycemic, risks.aki)

\* The first category, in the order Bleeding, Hypoglycemia, AKI, whose score is
\* the maximum of the three.
FirstAtMax ==
    LET score == <<risks.bleeding, risks.hypoglycemic, risks.aki>>
    IN  CHOOSE i \in 1..3 : score[i] = MaxRisk /\ \A j \in 1..(i - 1) : score[j] # MaxRisk

\* The category and the score a selection reported; category 0 when the place
\* made no selection (the calculator and the frontend below 70).
Selected ==
    CASE threat.at = "endpoint" ->
            [category |-> CategoryOf(threat.data.primary_alert),
             score |-> threat.data.primary_score]
      [] threat.at = "frontend" /\ threat.primary.shown ->
            [category |-> CategoryOf(threat.primary.alert), score |-> threat.primary.score]
      [] threat.at = "calculator" /\ threat.sel.alerted ->
            [category |-> CategoryOf(threat.sel.risk_type), score |-> threat.sel.max_risk]
      [] threat.at = "dashboard" ->
            [category |-> CategoryOf(threat.sel.primary_threat), score |-> threat.sel.max_risk]
      [] OTHER -> [category |-> 0, score |-> MaxRisk]

SelectionMade ==
    \/ threat.at \in {"endpoint", "dashboard"}
    \/ threat.at = "frontend" /\ threat.primary.shown
    \/ threat.at = "calculator" /\ threat.sel.alerted

\* C7: every primary-threat selection (the /calculate endpoint, the Risk
\* Calculator page, the Live Dashboard page, and the frontend showing the
\* endpoint's answer) picks the first category in the order Bleeding,
\* Hypoglycemia, AKI whose score equals the maximum, and reports that maximum;
\* (70, 70, 0) selects Bleeding, and a tie of Hypoglycemia and AKI above Bleeding
\* selects Hypoglycemia.
C7_FirstCategoryAtMaxIsPrimary ==
    SelectionMade =>
        /\ Selected.category = FirstAtMax
        /\ Selected.score = MaxRisk
        /\ (risks = [bleeding |-> 70, hypoglycemic |-> 70, aki |-> 0]) => Selected.category = 1
        /\ (risks.hypoglycemic = risks.aki /\ risks.bleeding < risks.aki) => Selected.category = 2

C7_Witness ==
    /\ risks = [bleeding |-> 70, hypoglycemic |-> 70, aki |-> 0]
    /\ threat.at = "endpoint"
    /\ threat.data.primary_alert = "Bleeding" /\ threat.data.primary_score = 70

-----------------------------------------------------------------------------
(* Claims about the alert and the dashboard labels, checked under Spec. *)

\* The threshold rule for a severity word attached to a score s: CRITICAL only
\* if s >= 90, HIGH only if 70 <= s < 90.
FollowsThresholdRule(word, s) ==
    /\ word = "CRITICAL" => s >= 90
    /\ word = "HIGH" => (70 <= s /\ s < 90)

\* C9 as stated: the severity word in the header of the calculator's alert
\* message, and each per-category label of the Live Dashboard for a loaded
\* patient, follows the threshold rule for that category's score; no score in
\* 70..89 is labelled CRITICAL.
C9_AsStated ==
    /\ (view.page = "Risk Calculator" /\ view.load_button) =>
          FollowsThresholdRule(view.alert_message.severity, view.max_risk)
    /\ (view.page = "Live Dashboard" /\ session_state.patient_loaded) =>
          /\ FollowsThresholdRule(view.bleeding_label, view.br)
          /\ FollowsThresholdRule(view.hypoglycemic_label, view.hr)
          /\ FollowsThresholdRule(view.aki_label, view.ar)

\* The checklist of each category, in its fixed order, as <<condition, factor>>.
Checklist(risk_type, c) ==
    CASE risk_type = "Bleeding" ->
            << <<c.inr_calc > 350, "High INR ({inputs['inr']})">>,
               <<c.antibiotic_order, "New Antibiotic Order (Metabolic Interference)">>,
               <<c.on_antiplatelet /\ c.on_anticoag, "Dual Antiplatelet/Anticoagulant Therapy">>,
               <<c.alcohol_use, "Heavy Alcohol Use">>,
               <<c.hist_gi_bleed, "History of GI Bleed">>,
               <<c.prior_stroke, "History of Stroke/TIA (Complex Management)">> >>
      [] risk_type = "Hypoglycemic" ->
            << <<c.impaired_renal, "Impaired Renal Status (Reduced Drug Clearance)">>,
               <<c.high_hba1c, "Poor DM Control (HbA1c > 9.0%)">>,
               <<c.recent_dka, "Recent DKA/HHS Admission (Metabolic Volatility)">>,
               <<c.weight_calc < 60, "Low Body Weight ({inputs['weight']} kg)">> >>
      [] risk_type = "AKI" ->
            << <<c.baseline_creat > 150, "Baseline CKD (Creatinine > 1.5)">>,
               <<c.active_chemo, "Active Chemotherapy (Nephrotoxic Agent)">>,
               <<c.contrast_exposure, "Recent Contrast Dye Exposure">>,
               <<c.on_acei_arb /\ c.on_diuretic, "Combined ACEi/Diuretic Therapy">> >>

\* The factors of a checklist whose condition is true, each once, in order.
RECURSIVE TrueFactors(_)
TrueFactors(list) ==
    IF list = <<>> THEN <<>>
    ELSE (IF Head(list)[1] THEN <<Head(list)[2]>> ELSE <<>>) \o TrueFactors(Tail(list))

\* C10 as stated: the message of generate_detailed_alert lists exactly the
\* checklist factors of the selected category whose condition is true, each
\* once, in checklist order, and no factor whose condition is false.
C10_AsStated ==
    (view.page = "Risk Calculator" /\ view.load_button) =>
        view.alert_message.factors = TrueFactors(Checklist(view.risk_type, calc))

-----------------------------------------------------------------------------
(* Claims about generate_detailed_alert on its own, checked under          *)
(* SpecAlert.  Checklist above is the checklist of each category as the    *)
(* specification gives it; it reads the widgets, the anticoagulant         *)
(* checkbox among them.                                                    *)

AlertReturned == alert_ret # NoAlert

\* The text that ends in the generic fallback sentence
FallbackText(risk_type) ==
    LET name == CASE risk_type = "Bleeding" -> "Bleeding Risk"
                  [] risk_type = "Hypoglycemic" -> "Hypoglycemic Risk"
                  [] risk_type = "AKI" -> "AKI Risk (Renal)"
    IN  base_message_text("CRITICAL", name)
            \o " High risk due to combination of demographic factors."

Lists(message, factor) == \E i \in DOMAIN message.factors : message.factors[i] = factor

\* C11 as stated: for each of the three categories, the message returned ends
\* in the generic fallback sentence if and only if no factor of that category's
\* checklist is true; with a checklist factor true the fallback is not emitted.
C11_AsStated ==
    AlertReturned =>
        (alert_ret.text = FallbackText(alert_call.risk_type)
            <=> TrueFactors(Checklist(alert_call.risk_type, alert_call.widgets)) = <<>>)

\* C17 as stated: the Bleeding message lists "Dual Antiplatelet/Anticoagulant
\* Therapy" exactly when the patient is on both an antiplatelet and an
\* anticoagulant, and the AKI message lists "Combined ACEi/Diuretic Therapy"
\* exactly when both the ACEi/ARB and the diuretic flag are true.
C17_AsStated ==
    AlertReturned =>
        /\ alert_call.risk_type = "Bleeding" =>
              (Lists(alert_ret, "Dual Antiplatelet/Anticoagulant Therapy")
                  <=> (alert_call.widgets.on_antiplatelet /\ alert_call.widgets.on_anticoag))
        /\ alert_call.risk_type = "AKI" =>
              (Lists(alert_ret, "Combined ACEi/Diuretic Therapy")
                  <=> (alert_call.widgets.on_acei_arb /\ alert_call.widgets.on_diuretic))

\* The combined ACEi/diuretic factor of the AKI checklist on its own
AkiCombinedFactorExact ==
    (AlertReturned /\ alert_call.risk_type = "AKI") =>
        (Lists(alert_ret, "Combined ACEi/Diuretic Therapy")
            <=> (alert_call.widgets.on_acei_arb /\ alert_call.widgets.on_diuretic))

\* The fallback is emitted exactly when the message lists no factor, and outside
\* the Bleeding checklist the message lists the factors whose condition is true.
FallbackIffNoFactorListed ==
    AlertReturned =>
        /\ alert_ret.text = FallbackText(alert_call.risk_type) <=> alert_ret.factors = <<>>
        /\ alert_call.risk_type # "Bleeding" =>
              alert_ret.factors = TrueFactors(Checklist(alert_call.risk_type, alert_call.widgets))

-----------------------------------------------------------------------------
(* Claims about the interaction lookup, checked under SpecLookup. *)

\* A name normalised as the specification says: trimmed and in lower case
Normalized(name) == lower(strip(name))

\* The entries of a table whose key is the normalised pair in either order
EntriesFor(db, name1, name2) ==
    {i \in DOMAIN db : \/ db[i].key = <<Normalized(name1), Normalized(name2)>>
                       \/ db[i].key = <<Normalized(name2), Normalized(name1)>>}

ApiAnswered == found.api # None
AppAnswered == found.app # NotChecked

\* The typed names that differ from `name` in letter case and outer whitespace only
Respellings(name) == {t \in TypedNames : Normalized(t) = Normalized(name)}

WarfarinPadded == <<" ","W","A","R","F","A","R","I","N"," ">>
AmiodaroneLower == <<"a","m","i","o","d","a","r","o","n","e">>

\* C12: the lookup depends only on the unordered pair of normalised names: in
\* both copies lookup(a, b) = lookup(b, a), and the result is unchanged when a
\* name is respelled in another letter case or with whitespace around it;
\* ("Warfarin", "Amiodarone") and ("amiodarone", " WARFARIN ") give one string.
C12_LookupOfUnorderedNormalizedPair ==
    /\ ApiAnswered =>
          /\ found.api = check_interaction(drugs.drug2, drugs.drug1)
          /\ \A t \in Respellings(drugs.drug1) :
                /\ check_interaction(t, drugs.drug2) = found.api
                /\ check_interaction(drugs.drug2, t) = found.api
    /\ AppAnswered =>
          /\ found.app.interaction = app_check_interaction(drugs.drug2, drugs.drug1)
          /\ \A t \in Respellings(drugs.drug1) :
                /\ app_check_interaction(t, drugs.drug2) = found.app.interaction
                /\ app_check_interaction(drugs.drug2, t) = found.app.interaction
    /\ (drugs.drug1 = AmiodaroneLower /\ drugs.drug2 = WarfarinPadded) =>
          /\ ApiAnswered =>
                found.api = check_interaction(Capitalised(Normalized(drugs.drug2)),
                                              Capitalised(drugs.drug1))
          /\ AppAnswered =>
                found.app.interaction = app_check_interaction(Capitalised(Normalized(drugs.drug2)),
                                                              Capitalised(drugs.drug1))

C12_Witness ==
    /\ drugs.drug1 = AmiodaroneLower /\ drugs.drug2 = WarfarinPadded
    /\ found.api = interaction_db[1].value
    /\ found.app.interaction = app_interaction_db[1].value

AspirinCapitalised == <<"A","s","p","i","r","i","n">>
MetforminCapitalised == <<"M","e","t","f","o","r","m","i","n">>

\* A Python str: a sequence of characters, which None is not
IsString(x) == x # None /\ DOMAIN x = 1..Len(x)

\* C13: the lookup is total: for every pair of names it returns a string, the
\* description of the table when the normalised pair, in either order, is a
\* key, and exactly "No major interaction found." otherwise, as for
\* ("Aspirin", "Metformin").
C13_LookupIsTotal ==
    /\ ApiAnswered =>
          /\ IsString(found.api)
          /\ \A i \in EntriesFor(interaction_db, drugs.drug1, drugs.drug2) :
                found.api = interaction_db[i].value
          /\ EntriesFor(interaction_db, drugs.drug1, drugs.drug2) = {} =>
                found.api = NoInteraction
    /\ AppAnswered =>
          /\ IsString(found.app.interaction)
          /\ \A i \in EntriesFor(app_interaction_db, drugs.drug1, drugs.drug2) :
                found.app.interaction = app_interaction_db[i].value
          /\ EntriesFor(app_interaction_db, drugs.drug1, drugs.drug2) = {} =>
                found.app.interaction = NoInteraction
    /\ (drugs.drug1 = AspirinCapitalised /\ drugs.drug2 = MetforminCapitalised) =>
          /\ ApiAnswered => found.api = NoInteraction
          /\ AppAnswered => found.app.interaction = NoInteraction

C13_Witness ==
    /\ drugs.drug1 = AspirinCapitalised /\ drugs.drug2 = MetforminCapitalised
    /\ found.api = NoInteraction
    /\ found.app.interaction = NoInteraction

MajorWord == <<"M","a","j","o","r">>
ModerateWord == <<"M","o","d","e","r","a","t","e">>

Tagged(description) == Contains(description, MajorWord) \/ Contains(description, ModerateWord)

\* C14: every description of the two interaction tables contains the word
\* "Major" or "Moderate", so the Medication Checker shows the result of every
\* known pair as Major (st.error) or Moderate (st.warning), and shows the
\* no-interaction sentence as neither (st.success).
C14_DescriptionsAreTagged ==
    /\ \A i \in DOMAIN interaction_db : Tagged(interaction_db[i].value)
    /\ \A i \in DOMAIN app_interaction_db : Tagged(app_interaction_db[i].value)
    /\ ~Tagged(NoInteraction)
    /\ AppAnswered =>
          IF EntriesFor(app_interaction_db, drugs.drug1, drugs.drug2) # {}
          THEN /\ Tagged(found.app.interaction)
               /\ found.app.shown = IF Contains(found.app.interaction, MajorWord)
                                    THEN "st.error" ELSE "st.warning"
          ELSE /\ found.app.interaction = NoInteraction
               /\ found.app.shown = "st.success"

C14_Witness ==
    /\ AppAnswered
    /\ EntriesFor(app_interaction_db, drugs.drug1, drugs.drug2) # {}
    /\ found.app.shown = "st.warning"
    /\ Contains(found.app.interaction, ModerateWord)

-----------------------------------------------------------------------------
(* Claims about the defaults of a /calculate request, checked under        *)
(* SpecDefaults.                                                           *)

\* The neutral values the specification documents for an unspecified field
DocumentedNeutral ==
    [race |-> "Other", inr |-> 100, baseline_creat |-> 90]
    @@ [f \in {"antibiotic_order", "dietary_change", "contrast_exposure", "on_anticoag",
               "on_antiplatelet", "on_insulin", "on_diuretic", "on_acei_arb", "prior_stroke",
               "hist_gi_bleed", "uncontrolled_bp", "smoking_calc", "alcohol_use",
               "liver_disease", "high_hba1c", "neuropathy_history", "impaired_renal",
               "recent_dka", "active_chemo"} |-> FALSE]

\* A value of a field that adds nothing to any of the four scores
ScoresNothing(f, v) ==
    CASE f = "age" -> v >= 18 /\ v <= 70
      [] f = "gender" -> v = "Male"
      [] f = "weight" -> v >= 60 /\ v <= 120
      [] f = "race" -> v = "Other"
      [] f = "inr" -> v <= 350
      [] f = "baseline_creat" -> v <= 150
      [] OTHER -> v = FALSE

OnlyNeutralGiven(body) == \A f \in DOMAIN body : ScoresNothing(f, body[f])

AllZeroResponse ==
    [status |-> 200,
     json |-> [bleeding_risk |-> 0, hypoglycemic_risk |-> 0, aki_risk |-> 0,
               fragility_index |-> 0, primary_alert |-> "Bleeding", primary_score |-> 0]]

\* The answer to the request that gives every field of `full`
ExplicitResponse(full) ==
    LET f == calculate_risks_locals(full)
    IN  [status |-> 200,
         json |-> calculate_risks_response(f.b_risk, f.h_risk, f.a_risk, f.fragility)]

CalculateAnswered ==
    /\ requests # <<>>
    /\ requests[1].endpoint = "/calculate"
    /\ requests[1].pc = "responded"

\* C15 as stated: a /calculate request may leave any field unspecified; giving
\* only non-contributing values and omitting all other fields, it is answered
\* as the request with every field at its neutral value is, with four scores of 0.
C15_AsStated ==
    (CalculateAnswered /\ OnlyNeutralGiven(requests[1].body)) =>
        requests[1].response = AllZeroResponse

\* C15, amended: a /calculate request that gives age (18..100), gender and
\* weight is answered as the request that also gives every field it omits at
\* the documented neutral value (flags false, race Other, INR 1.0, creatinine
\* 0.9), with four scores of 0 when it gives non-contributing values only; a
\* request that omits age, gender or weight is answered 422, without scores.
C15_OptionalFieldsDefaultNeutral ==
    CalculateAnswered =>
        LET body == requests[1].body
        IN  IF {"age", "gender", "weight"} \subseteq DOMAIN body /\ body.age \in 18..100
            THEN /\ requests[1].response = ExplicitResponse(body @@ DocumentedNeutral)
                 /\ OnlyNeutralGiven(body) => requests[1].response = AllZeroResponse
            ELSE requests[1].response.status = 422

C15_Witness ==
    /\ CalculateAnswered
    /\ DOMAIN requests[1].body = {"age", "gender", "weight"}
    /\ OnlyNeutralGiven(requests[1].body)
    /\ requests[1].response = AllZeroResponse

-----------------------------------------------------------------------------
(* Claims about concurrent requests, checked under SpecServer. *)

\* The answer a request gets when the service handles it alone
ResponseAlone(endpoint, body) ==
    IF endpoint = "/calculate"
    THEN IF validate_PatientInput(body).ok
         THEN ExplicitResponse(validate_PatientInput(body).p)
         ELSE Unprocessable
    ELSE IF validate_InteractionInput(body).ok
         THEN [status |-> 200, json |-> [result |-> check_interaction(body.drug1, body.drug2)]]
         ELSE Unprocessable

\* The locals a call holds after its assignments when it runs alone
LocalsAlone(endpoint, body) ==
    IF endpoint = "/calculate"
    THEN calculate_risks_locals(validate_PatientInput(body).p)
    ELSE check_interaction_locals(validate_InteractionInput(body).p)

\* C16: scoring is stateless: in every interleaving of concurrent /calculate
\* and /interaction requests, each request's response, and the locals its
\* handler holds meanwhile, are those it has when it runs alone.
C16_ResponsesAsWhenAlone ==
    \A i \in DOMAIN requests :
        /\ requests[i].pc = "responded" =>
              requests[i].response = ResponseAlone(requests[i].endpoint, requests[i].body)
        /\ requests[i].pc = "assigned" =>
              requests[i].frame = LocalsAlone(requests[i].endpoint, requests[i].body)
        /\ requests[i].pc # "responded" => requests[i].response = NoResponse

C16_Witness ==
    /\ Len(requests) = MaxRequests
    /\ requests[1].endpoint = "/calculate" /\ requests[1].pc = "responded"
    /\ requests[1].response.status = 200
    /\ requests[2].endpoint = "/calculate" /\ requests[2].pc = "assigned"
    /\ requests[2].body # requests[1].body
    /\ requests[3].endpoint = "/interaction" /\ requests[3].pc = "assigned"

-----------------------------------------------------------------------------
(* Claims about the loaded patient, checked under SpecFocus. *)

Loaded(ss) == "patient_loaded" \in DOMAIN ss /\ ss.patient_loaded

\* The five values that "Load Patient to Dashboard" stores
StoredPatient(ss) ==
    <<ss.bleeding_risk, ss.hypoglycemic_risk, ss.aki_risk, ss.fragility_index, ss.patient_info>>

\* The same five values as one snapshot of the calculator's widgets gives them
SnapshotPatient(c) ==
    LET page == CalculatorPage(c, FALSE)
    IN  <<page.bleeding_risk, page.hypoglycemic_risk, page.aki_risk, page.comorbidity_load,
          [age |-> c.age_calc, gender |-> c.gender_calc, weight |-> c.weight_calc]>>

\* In a state with a loaded patient: four values in 0..100, a category maximum
\* of at least 70, and a dashboard that does not show LOW.
LoadedPatientIsAtRisk ==
    Loaded(session_state) =>
        /\ session_state.bleeding_risk \in 0..100
        /\ session_state.hypoglycemic_risk \in 0..100
        /\ session_state.aki_risk \in 0..100
        /\ session_state.fragility_index \in 0..100
        /\ Max3(session_state.bleeding_risk, session_state.hypoglycemic_risk,
                session_state.aki_risk) >= 70
        /\ view.page = "Live Dashboard" =>
              /\ view.alert_label \in {"HIGH", "CRITICAL"}
              /\ view.max_risk >= 70

\* In a step: a loaded patient stays loaded, and whenever the stored values
\* change, all five become those of the calculator's snapshot of that run.
LoadedFromOneSnapshot ==
    /\ Loaded(session_state) => Loaded(session_state')
    /\ (Loaded(session_state') /\ (~Loaded(session_state)
            \/ StoredPatient(session_state') # StoredPatient(session_state))) =>
          /\ menu' = "Risk Calculator"
          /\ StoredPatient(session_state') = SnapshotPatient(calc')

\* C18: throughout a session (launch, page switches, edits of the calculator,
\* presses of "Load Patient to Dashboard"), while patient_loaded is true the
\* stored bleeding, hypoglycemic, AKI and fragility values are each in 0..100,
\* all come from one calculator snapshot, and their category maximum is at
\* least 70, so the Live Dashboard never shows LOW for the loaded patient's
\* primary threat; and patient_loaded never returns to false.
C18_LoadedPatientFromOneAlertingSnapshot ==
    [](LoadedPatientIsAtRisk) /\ [][LoadedFromOneSnapshot]_vars

C18_Witness ==
    /\ Loaded(session_state)
    /\ view.page = "Live Dashboard"
    /\ view.alert_label = "HIGH"
    /\ view.max_risk \in 70..89
    /\ StoredPatient(session_state) # SnapshotPatient(CalcDefaults)

\* The calculator shows a patient whose three scores are all below 70, and
\* with him no "Load Patient to Dashboard" button.
ManageablePatientShown ==
    /\ menu = "Risk Calculator"
    /\ view.max_risk < 70
    /\ ~view.load_button

-----------------------------------------------------------------------------
(* Claims about the two copies of the engine, checked under SpecCopies. *)

\* The severity that the substring rule reads off a lookup result
Severity(text) ==
    IF Contains(text, MajorWord) THEN "Major"
    ELSE IF Contains(text, ModerateWord) THEN "Moderate"
    ELSE "none"

BothAnswered == found # NoFound /\ found.api # None /\ found.app # NotChecked

\* C19: the two copies of the engine agree: each scorer of src/app.py returns
\* what the scorer of the same name in src/backend/main.py returns on the same
\* arguments, and for every pair of names that is a key, in either order, of
\* the backend's interaction table, the lookup of src/app.py and the backend's
\* return a result of the same Major/Moderate severity.
C19_CopiesAgree ==
    /\ Returned => ret.app = ret.api
    /\ (BothAnswered /\ EntriesFor(interaction_db, drugs.drug1, drugs.drug2) # {}) =>
          /\ Severity(found.api) \in {"Major", "Moderate"}
          /\ Severity(found.app.interaction) = Severity(found.api)

C19_Witness ==
    /\ BothAnswered
    /\ EntriesFor(interaction_db, drugs.drug1, drugs.drug2) # {}
    /\ found.api # found.app.interaction
    /\ Severity(found.api) = "Major"
    /\ Severity(found.app.interaction) = "Major"

=============================================================================
